---- MODULE Spec2Model ----
(***************************************************************************)
(* Registration, heartbeat and discovery of pkg/env (wellnown-env).        *)
(*                                                                         *)
(* Strings are sequences of one-character strings, so that key building,   *)
(* prefix tests and subject-token matching are computed as the code        *)
(* computes them.  Time is counted in whole seconds.                       *)
(***************************************************************************)
EXTENDS Integers, Sequences, FiniteSets, TLC

VARIABLES
    \* ---- the build and the Manager (manager.go)
    build,        \* registry.GitOrg / registry.GitRepo set by ldflags
    mgr,          \* "none" | "ready" | "failed": outcome of env.New
    opts,         \* Options after defaults, environment and functional options
    hasRegistrar, \* m.registrar != nil
    closed,       \* m.closed
    mmu,          \* holder of Manager.mu: "free" | "close"
    natsDown,     \* natsNode.Close() has run
    parsePc,      \* position of the goroutine calling Manager.Parse
    parseRes,     \* what the last Parse call returned
    closePc,      \* position of the goroutine calling Manager.Close
    closeRes,     \* what the last Close call returned
    deregRes,     \* what Registrar.Deregister returned to Close
    \* ---- the Registrar (register.go)
    mu,           \* holder of Registrar.mu: "free" | "register" | "heartbeat" | "deregister"
    key,          \* r.key
    reg,          \* r.reg
    stopped,      \* r.stopped
    stopCh,       \* r.stopCh: "open" | "closed"
    hbPc,         \* position of the heartbeat goroutine
    timer,        \* seconds until the ticker's next tick
    tickPending,  \* a tick is buffered in ticker.C (capacity 1)
    hbWait,       \* seconds the heartbeat's store call has been in flight
    crashed,      \* the process died of an unrecovered panic
    usedIds,      \* instance ids already drawn (uuid.New never repeats)
    \* ---- the KV bucket services_registry (external substrate)
    kv,           \* key -> [val, age]
    \* ---- history of the run, read by the properties only
    writes,       \* every successful Put: [by, key, val, reg]
    sinceWrite,   \* seconds since the last successful Put of r.key; -1: none yet
    hbFails,      \* consecutive failed heartbeat writes
    deregKey,     \* the key Deregister deleted successfully, once it has returned
    lapsed,       \* a heartbeat write that followed a successful write found the key expired
    parseFailure, \* what failed in the current Parse call: "none" | "secrets" | "conf"
    \* ---- discovery (discovery.go)
    subActive,    \* the watcher's subscription delivers events
    updates,      \* watcher.Updates(): the buffered entries
    updClosed,    \* watcher.Updates() has been closed
    wStopCh,      \* sw.stopCh: "open" | "closed"
    wPc,          \* position of the watcher goroutine
    wEntry,       \* the entry the goroutine took from Updates()
    wName,        \* the name WatchService was called with; <<>> for WatchAll
    wKind,        \* "none" | "service" | "all"
    stopPc,       \* position of the goroutine calling ServiceWatcher.Stop
    calls,        \* the callback invocations, in order
    lateCall,     \* a callback invocation started after Stop() had returned
    snap,         \* the last GetService / GetAllServices call: its arguments, result and the store it read
    storeOps,     \* writes other instances have made to the registry
    \* ---- the drift-checking tool (cmd/wellknown-check)
    toolArgs,     \* the command line: the action flags, --pr-schema and --repo
    prFile,       \* what the file named by --pr-schema holds
    toolPc,       \* position of the tool's main goroutine
    toolExit,     \* the exit code of the process; -1 while it runs
    toolOut,      \* what the tool has written to standard output
    \* ---- the tool's functions, applied to an input on their own
    driftIn,      \* the arguments: field lists, registration, identity
    driftOut,     \* the function applied and what it printed and returned
    \* ---- secret resolution (vals.go)
    environ,      \* the process environment: name -> value
    envBefore,    \* the environment when ResolveEnvSecrets was called
    secPc,        \* position of the goroutine calling ResolveEnvSecrets
    toResolve,    \* the map given to runtime.Eval: name -> reference
    resolved,     \* what runtime.Eval returned, name -> plaintext, less what has been set
    secRes,       \* what ResolveEnvSecrets returned
    evalCalls,    \* calls made to the resolver (runtime.Eval)
    \* ---- authentication of the embedded node (auth.go, nats.go)
    authWorld,    \* NATS_AUTH, NATS_TOKEN and the files under .auth/ and the NSC store
    authPc,       \* position of the goroutine starting the node
    authMode,     \* cfg.Mode once LoadAuthConfig has chosen it
    authCfg,      \* the *AuthConfig LoadAuthConfig returned
    authErr,      \* the step that returned an error; "none" if none did
    srvOpts,      \* the server.Options the node was created with
    server,       \* "none" | "up" | "down": the embedded server
    client,       \* the last connection attempt of another client: [creds, accepted]
    \* ---- the field extractor (fields.go), applied to an input on its own
    confIn,       \* the configuration description given to ExtractFields
    confOut,      \* what ExtractFields returned
    \* ---- a Manager that is used again (manager.go, register.go)
    oldLoops,     \* heartbeat goroutines started by earlier Register calls and still running
    lateCloses    \* calls of Close made after the Manager was closed, once returned

mgrVars  == <<build, mgr, opts, hasRegistrar, closed, mmu, natsDown,
              parsePc, parseRes, closePc, closeRes, deregRes>>
regVars  == <<mu, key, reg, stopped, stopCh, hbPc, timer, tickPending, hbWait,
              crashed, usedIds>>
histVars == <<writes, sinceWrite, hbFails, deregKey, lapsed, parseFailure>>
discVars == <<subActive, updates, updClosed, wStopCh, wPc, wEntry, wName, wKind,
              stopPc, calls, lateCall, snap, storeOps>>
toolVars == <<toolArgs, prFile, toolPc, toolExit, toolOut>>
driftVars == <<driftIn, driftOut>>
secVars  == <<environ, envBefore, secPc, toResolve, resolved, secRes, evalCalls>>
authVars == <<authWorld, authPc, authMode, authCfg, authErr, srvOpts, server, client>>
confVars == <<confIn, confOut>>
multiVars == <<oldLoops, lateCloses>>
moreVars == <<authVars, confVars, multiVars>>
restVars == <<toolVars, driftVars, secVars, moreVars>>
vars     == <<mgrVars, regVars, histVars, discVars, kv, restVars>>

(***************************************************************************)
(* Program constants.                                                      *)
(***************************************************************************)
\* jetstream.KeyValueConfig.TTL of the bucket, in seconds
BucketTTL == 30
\* GetEnvInt("HEARTBEAT_INTERVAL", 10)
DefaultHeartbeatInterval == 10
\* context.WithTimeout(context.Background(), 5*time.Second) around the heartbeat's store
HeartbeatStoreTimeout == 5

(***************************************************************************)
(* Bounds of the model.                                                    *)
(***************************************************************************)
\* consecutive heartbeat failures that are counted (the loop itself is unbounded)
MaxFails == 2
\* entries the watcher's Updates() channel holds in the model
MaxUpdates == 3
\* callback invocations that are recorded
MaxCalls == 2
\* writes the other instances make to the registry
MaxStoreOps == 2

\* heartbeat intervals (seconds) a Manager is configured with
Intervals == {0 - 1, 0, DefaultHeartbeatInterval, 27, BucketTTL}
\* ldflags values. A GitHub organization name holds no dot; a repository name may.
Orgs  == {<<>>, <<"a">>}
Repos == {<<>>, <<"b">>, <<"b", ".", "c">>}
\* uuid.New().String()[:8]
InstanceIDs == {<<"1">>, <<"2">>}

(***************************************************************************)
(* Strings.                                                                *)
(***************************************************************************)
HasPrefix(s, p) == Len(s) >= Len(p) /\ SubSeq(s, 1, Len(p)) = p

RECURSIVE SplitDots(_)
\* the dot-separated tokens of a subject
SplitDots(s) ==
    IF \A i \in 1..Len(s) : s[i] # "."
    THEN <<s>>
    ELSE LET i == CHOOSE j \in 1..Len(s) : s[j] = "." /\ \A k \in 1..(j-1) : s[k] # "."
         IN  <<SubSeq(s, 1, i - 1)>> \o SplitDots(SubSeq(s, i + 1, Len(s)))

\* strings.SplitN(name, "/", 2)
SplitSlash(name) ==
    IF \A i \in 1..Len(name) : name[i] # "/"
    THEN <<name>>
    ELSE LET i == CHOOSE j \in 1..Len(name) : name[j] = "/" /\ \A k \in 1..(j-1) : name[k] # "/"
         IN  <<SubSeq(name, 1, i - 1), SubSeq(name, i + 1, Len(name))>>

\* a NATS subject pattern against a subject: "*" stands for exactly one token,
\* a final ">" for one or more tokens
SubjectMatches(pattern, subject) ==
    LET p == SplitDots(pattern)
        s == SplitDots(subject)
    IN  IF p[Len(p)] = <<">">>
        THEN /\ Len(s) >= Len(p)
             /\ \A i \in 1..(Len(p) - 1) : p[i] = <<"*">> \/ p[i] = s[i]
        ELSE /\ Len(p) = Len(s)
             /\ \A i \in 1..Len(p) : p[i] = <<"*">> \/ p[i] = s[i]

(***************************************************************************)
(* registry/types.go                                                       *)
(***************************************************************************)
GetGitHubInfo == [org |-> build.org, repo |-> build.repo]

\* GitHubInfo.Name
GitHubName(g) == IF g.org = <<>> \/ g.repo = <<>> THEN <<>> ELSE g.org \o <<"/">> \o g.repo

\* ServiceRegistration.KVKey
KVKey(r) == r.github.org \o <<".">> \o r.github.repo \o <<".">> \o r.instance.id

\* a FieldInfo: the attributes the program reads (EnvKey, Default, Required,
\* IsSecret, Dependency)
FieldInfo(envKey, default, required, isSecret, dependency) ==
    [envKey |-> envKey, default |-> default, required |-> required,
     isSecret |-> isSecret, dependency |-> dependency]

\* the zero ServiceRegistration
NoReg == [github |-> [org |-> <<>>, repo |-> <<>>], instance |-> [id |-> <<>>], fields |-> <<>>]

\* json.Marshal of a ServiceRegistration: the wire object of section 6
Marshal(r) ==
    [json |-> TRUE, github |-> r.github, instance |-> r.instance, fields |-> r.fields]
\* json.Unmarshal into a ServiceRegistration: [ok, reg]
Unmarshal(bytes) ==
    IF bytes.json
    THEN [ok |-> TRUE, reg |-> [github |-> bytes.github, instance |-> bytes.instance,
                                 fields |-> bytes.fields]]
    ELSE [ok |-> FALSE, reg |-> NoReg]

(***************************************************************************)
(* The KV bucket.                                                          *)
(***************************************************************************)
KvPut(store, k, v) == [x \in DOMAIN store \cup {k} |-> IF x = k THEN [val |-> v, age |-> 0] ELSE store[x]]
KvDelete(store, k) == [x \in DOMAIN store \ {k} |-> store[x]]
\* one second passes: entries older than the bucket's TTL are gone
KvAge(store) ==
    LET live == {x \in DOMAIN store : store[x].age + 1 < BucketTTL}
    IN  [x \in live |-> [val |-> store[x].val, age |-> store[x].age + 1]]
Readable(k) == k \in DOMAIN kv

\* a jetstream.KeyValueEntry delivered by a watcher; a nil entry ends the
\* replay of the current values and is what a closed channel yields
NilEntry == [nil |-> TRUE, key |-> <<>>, op |-> "put", val |-> [json |-> FALSE]]
PutEntry(k, v) == [nil |-> FALSE, key |-> k, op |-> "put", val |-> v]
DelEntry(k) == [nil |-> FALSE, key |-> k, op |-> "del", val |-> [json |-> FALSE]]

NoSnap == [kind |-> "none", name |-> <<>>, err |-> FALSE, result |-> {}, store |-> <<>>]

(***************************************************************************)
(* env.go, manager.go: construction of the Manager.                        *)
(***************************************************************************)
\* GetEnvInt(key, defaultVal): the default when unset or not a number
GetEnvInt(v, defaultVal) == IF v.kind = "int" THEN v.n ELSE defaultVal

EnvChoices ==
    {[kind |-> "unset", n |-> 0], [kind |-> "text", n |-> 0]}
        \cup {[kind |-> "int", n |-> i] : i \in Intervals}
\* WithHeartbeatInterval(seconds), or the option not given
IntervalOptions ==
    {[given |-> FALSE, n |-> 0]} \cup {[given |-> TRUE, n |-> i] : i \in Intervals}

\* the Options New ends with: defaults from the environment, then the functional options
BuildOptions(envHB, optHB, withoutNATS, withoutReg, withoutHB) ==
    [interval            |-> IF optHB.given THEN optHB.n
                             ELSE GetEnvInt(envHB, DefaultHeartbeatInterval),
     disableNATS         |-> withoutNATS,
     disableRegistration |-> withoutReg \/ withoutNATS,
     disableHeartbeat    |-> withoutHB]

NoOptions == BuildOptions([kind |-> "unset", n |-> 0], [given |-> FALSE, n |-> 0], FALSE, FALSE, FALSE)

\* env.New(prefix, opts...)
New ==
    /\ mgr = "none"
    /\ \E envHB \in EnvChoices, optHB \in IntervalOptions,
          withoutNATS \in BOOLEAN, withoutReg \in BOOLEAN, withoutHB \in BOOLEAN,
          authOk \in BOOLEAN, nodeOk \in BOOLEAN :
        LET o == BuildOptions(envHB, optHB, withoutNATS, withoutReg, withoutHB)
        IN  /\ opts' = o
            /\ IF ~o.disableNATS /\ ~(authOk /\ nodeOk)
               THEN \* LoadAuthConfig or StartNATSNode failed: no Manager
                    /\ mgr' = "failed"
                    /\ hasRegistrar' = FALSE
               ELSE /\ mgr' = "ready"
                    /\ hasRegistrar' = (~o.disableNATS /\ ~o.disableRegistration)
    /\ UNCHANGED <<build, closed, mmu, natsDown, parsePc, parseRes, closePc, closeRes, deregRes>>
    /\ UNCHANGED <<regVars, histVars, discVars, restVars, kv>>

(***************************************************************************)
(* manager.go: Manager.Parse, with Registrar.Register (register.go).       *)
(***************************************************************************)
\* Parse reads m.closed under the read lock
ParseBegin ==
    /\ ~crashed
    /\ mgr = "ready"
    /\ parsePc = "idle"
    /\ hbPc = "none"          \* Register is called once per process (section 4.4)
    /\ mmu = "free"
    /\ IF closed
       THEN /\ parseRes' = "errClosed"
            /\ UNCHANGED parsePc
       ELSE /\ parsePc' = "secrets"
            /\ parseRes' = "none"
    /\ parseFailure' = "none"
    /\ UNCHANGED <<build, mgr, opts, hasRegistrar, closed, mmu, natsDown, closePc, closeRes, deregRes>>
    /\ UNCHANGED <<regVars, writes, sinceWrite, hbFails, deregKey, lapsed, discVars, restVars, kv>>

\* Step 1: ResolveEnvSecrets()
ParseSecrets ==
    /\ ~crashed
    /\ parsePc = "secrets"
    /\ \E ok \in BOOLEAN :
        IF ok
        THEN /\ parsePc' = "conf"
             /\ UNCHANGED <<parseRes, parseFailure>>
        ELSE /\ parsePc' = "idle"
             /\ parseRes' = "errSecrets"
             /\ parseFailure' = "secrets"
    /\ UNCHANGED <<build, mgr, opts, hasRegistrar, closed, mmu, natsDown, closePc, closeRes, deregRes>>
    /\ UNCHANGED <<regVars, writes, sinceWrite, hbFails, deregKey, lapsed, discVars, restVars, kv>>

\* ParseConf that goes on to register although conf.Parse failed
ParseConfIgnoresError ==
    /\ ~crashed
    /\ parsePc = "conf"
    /\ \E r \in {"ok", "help", "err"} :
        /\ parseFailure' = IF r = "err" THEN "conf" ELSE parseFailure
        /\ IF r = "help"
           THEN /\ parsePc' = "idle"
                /\ parseRes' = "help"
           ELSE IF hasRegistrar
                THEN /\ parsePc' = "register"
                     /\ UNCHANGED parseRes
                ELSE /\ parsePc' = "idle"
                     /\ parseRes' = "ok"
    /\ UNCHANGED <<build, mgr, opts, hasRegistrar, closed, mmu, natsDown, closePc, closeRes, deregRes>>
    /\ UNCHANGED <<regVars, writes, sinceWrite, hbFails, deregKey, lapsed, discVars, restVars, kv>>

\* Step 2: conf.Parse(m.prefix, cfg)
ParseConf ==
    /\ ~crashed
    /\ parsePc = "conf"
    /\ \E r \in {"ok", "help", "err"} :
        CASE r = "err"  -> /\ parsePc' = "idle"
                           /\ parseRes' = "errConf"
                           /\ parseFailure' = "conf"
          [] r = "help" -> /\ parsePc' = "idle"
                           /\ parseRes' = "help"
                           /\ UNCHANGED parseFailure
          [] r = "ok"   -> /\ UNCHANGED parseFailure
                           /\ IF hasRegistrar
                              THEN /\ parsePc' = "register"
                                   /\ UNCHANGED parseRes
                              ELSE /\ parsePc' = "idle"
                                   /\ parseRes' = "ok"
    /\ UNCHANGED <<build, mgr, opts, hasRegistrar, closed, mmu, natsDown, closePc, closeRes, deregRes>>
    /\ UNCHANGED <<regVars, writes, sinceWrite, hbFails, deregKey, lapsed, discVars, restVars, kv>>

\* RegistryKeyOf without the fallback for an empty org or repo
RegistryKeyNoFallback(r) == KVKey(r)

\* the key Register builds for a registration
RegistryKeyOf(r) ==
    IF r.github.org # <<>> /\ r.github.repo # <<>>
    THEN KVKey(r)
    ELSE <<"u", "n", "k", "n", "o", "w", "n", ".">> \o r.instance.id

\* ExtractFields(prefix, cfg) of the configuration the service is built with:
\* one plain field and one that names a service it depends on
ConfigFields ==
    <<FieldInfo("APP_PORT", "8080", FALSE, FALSE, <<>>),
      FieldInfo("APP_AUTH", "", TRUE, FALSE, <<"a", "/", "c">>)>>

\* Step 3, Registrar.Register: takes r.mu, builds r.reg and r.key
RegisterBegin ==
    /\ ~crashed
    /\ parsePc = "register"
    /\ mu = "free"
    /\ \E id \in InstanceIDs \ usedIds :
        LET r == [github |-> GetGitHubInfo, instance |-> [id |-> id], fields |-> ConfigFields]
        IN  /\ reg' = r
            /\ key' = RegistryKeyOf(r)
            /\ usedIds' = usedIds \cup {id}
    /\ mu' = "register"
    /\ parsePc' = "regStore"
    /\ UNCHANGED <<build, mgr, opts, hasRegistrar, closed, mmu, natsDown, parseRes, closePc, closeRes, deregRes>>
    /\ UNCHANGED <<stopped, stopCh, hbPc, timer, tickPending, hbWait, crashed>>
    /\ UNCHANGED <<histVars, discVars, restVars, kv>>

\* StorePut whose heartbeat write rebuilds the registration: the instance
\* started anew, under the key as built without the ldflags
StorePutRebuilds(by) ==
    /\ ~natsDown
    /\ LET k == IF by = "heartbeat" THEN <<"unknown", ".">> \o key ELSE key
           r == IF by = "heartbeat" THEN [reg EXCEPT !.fields = <<>>] ELSE reg
       IN  /\ kv' = KvPut(kv, k, Marshal(r))
           /\ writes' = writes \cup {[by |-> by, key |-> k, reg |-> r]}
    /\ sinceWrite' = 0

\* Registrar.store: r.kv.Put(ctx, r.key, json.Marshal(r.reg))
StorePut(by) ==
    /\ ~natsDown
    /\ kv' = KvPut(kv, key, Marshal(reg))
    /\ writes' = writes \cup {[by |-> by, key |-> key, reg |-> reg]}
    /\ sinceWrite' = 0

\* the initial store succeeded: go r.heartbeat(), return nil
RegisterStoreOk ==
    /\ ~crashed
    /\ parsePc = "regStore"
    /\ StorePut("register")
    /\ hbPc' = "start"
    /\ mu' = "free"
    /\ parsePc' = "idle"
    /\ parseRes' = "ok"
    /\ hbFails' = 0
    /\ UNCHANGED <<build, mgr, opts, hasRegistrar, closed, mmu, natsDown, closePc, closeRes, deregRes>>
    /\ UNCHANGED <<key, reg, stopped, stopCh, timer, tickPending, hbWait, crashed, usedIds>>
    /\ UNCHANGED <<deregKey, lapsed, parseFailure, discVars, restVars>>

\* RegisterStoreFail that starts the heartbeat before it returns the error
RegisterStoreFailStartsHeartbeat ==
    /\ ~crashed
    /\ parsePc = "regStore"
    /\ hbPc' = "start"
    /\ mu' = "free"
    /\ parsePc' = "idle"
    /\ parseRes' = "errRegister"
    /\ UNCHANGED <<build, mgr, opts, hasRegistrar, closed, mmu, natsDown, closePc, closeRes, deregRes>>
    /\ UNCHANGED <<key, reg, stopped, stopCh, timer, tickPending, hbWait, crashed, usedIds>>
    /\ UNCHANGED <<histVars, discVars, restVars, kv>>

\* the initial store failed: the error is returned, no heartbeat is started
RegisterStoreFail ==
    /\ ~crashed
    /\ parsePc = "regStore"
    /\ mu' = "free"
    /\ parsePc' = "idle"
    /\ parseRes' = "errRegister"
    /\ UNCHANGED <<build, mgr, opts, hasRegistrar, closed, mmu, natsDown, closePc, closeRes, deregRes>>
    /\ UNCHANGED <<key, reg, stopped, stopCh, hbPc, timer, tickPending, hbWait, crashed, usedIds>>
    /\ UNCHANGED <<histVars, discVars, restVars, kv>>

(***************************************************************************)
(* register.go: Registrar.heartbeat.                                       *)
(***************************************************************************)
\* time.NewTicker(r.interval) panics unless the interval is positive
HbStart ==
    /\ ~crashed
    /\ hbPc = "start"
    /\ IF opts.interval <= 0
       THEN /\ hbPc' = "panic"
            /\ crashed' = TRUE
            /\ UNCHANGED <<timer, tickPending>>
       ELSE /\ hbPc' = "select"
            /\ timer' = opts.interval
            /\ tickPending' = FALSE
            /\ UNCHANGED crashed
    /\ UNCHANGED <<mu, key, reg, stopped, stopCh, hbWait, usedIds>>
    /\ UNCHANGED <<mgrVars, histVars, discVars, restVars, kv>>

\* select: case <-r.stopCh: return (the deferred ticker.Stop() runs)
HbSelectStop ==
    /\ ~crashed
    /\ hbPc = "select"
    /\ stopCh = "closed"
    /\ hbPc' = "done"
    /\ timer' = 0
    /\ tickPending' = FALSE
    /\ UNCHANGED <<mu, key, reg, stopped, stopCh, hbWait, crashed, usedIds>>
    /\ UNCHANGED <<mgrVars, histVars, discVars, restVars, kv>>

\* select: case <-ticker.C
HbSelectTick ==
    /\ ~crashed
    /\ hbPc = "select"
    /\ tickPending
    /\ tickPending' = FALSE
    /\ hbPc' = "lock"
    /\ UNCHANGED <<mu, key, reg, stopped, stopCh, timer, hbWait, crashed, usedIds>>
    /\ UNCHANGED <<mgrVars, histVars, discVars, restVars, kv>>

\* r.mu.Lock()
HbLock ==
    /\ ~crashed
    /\ hbPc = "lock"
    /\ mu = "free"
    /\ mu' = "heartbeat"
    /\ hbPc' = "check"
    /\ UNCHANGED <<key, reg, stopped, stopCh, timer, tickPending, hbWait, crashed, usedIds>>
    /\ UNCHANGED <<mgrVars, histVars, discVars, restVars, kv>>

\* HbCheck without the test of r.stopped: every tick taken leads to a store
HbCheckIgnoresStopped ==
    /\ ~crashed
    /\ hbPc = "check"
    /\ hbPc' = "store"
    /\ hbWait' = 0
    /\ UNCHANGED <<mu, timer, tickPending>>
    /\ UNCHANGED <<key, reg, stopped, stopCh, crashed, usedIds>>
    /\ UNCHANGED <<mgrVars, histVars, discVars, restVars, kv>>

\* if r.stopped { r.mu.Unlock(); return }; otherwise the store call begins
HbCheck ==
    /\ ~crashed
    /\ hbPc = "check"
    /\ IF stopped
       THEN /\ mu' = "free"
            /\ hbPc' = "done"
            /\ timer' = 0
            /\ tickPending' = FALSE
            /\ UNCHANGED hbWait
       ELSE /\ hbPc' = "store"
            /\ hbWait' = 0
            /\ UNCHANGED <<mu, timer, tickPending>>
    /\ UNCHANGED <<key, reg, stopped, stopCh, crashed, usedIds>>
    /\ UNCHANGED <<mgrVars, histVars, discVars, restVars, kv>>

\* HbStoreOk that reports success without refreshing the key
HbStoreOkNoPut ==
    /\ ~crashed
    /\ hbPc = "store"
    /\ ~natsDown
    /\ hbFails' = 0
    /\ mu' = "free"
    /\ hbPc' = "select"
    /\ hbWait' = 0
    /\ UNCHANGED <<key, reg, stopped, stopCh, timer, tickPending, crashed, usedIds>>
    /\ UNCHANGED <<mgrVars, writes, sinceWrite, deregKey, lapsed, parseFailure, discVars, restVars, kv>>

\* r.store(ctx) succeeded; cancel(); r.mu.Unlock(); back to the select
HbStoreOk ==
    /\ ~crashed
    /\ hbPc = "store"
    /\ StorePut("heartbeat")
    /\ lapsed' = (lapsed \/ (hbFails = 0 /\ key \notin DOMAIN kv))
    /\ hbFails' = 0
    /\ mu' = "free"
    /\ hbPc' = "select"
    /\ hbWait' = 0
    /\ UNCHANGED <<key, reg, stopped, stopCh, timer, tickPending, crashed, usedIds>>
    /\ UNCHANGED <<mgrVars, deregKey, parseFailure, discVars, restVars>>

\* HbStoreFail that gives up: the goroutine returns on the first failed write
HbStoreFailReturns ==
    /\ ~crashed
    /\ hbPc = "store"
    /\ hbFails' = IF hbFails < MaxFails THEN hbFails + 1 ELSE hbFails
    /\ mu' = "free"
    /\ hbPc' = "done"
    /\ hbWait' = 0
    /\ timer' = 0
    /\ tickPending' = FALSE
    /\ UNCHANGED <<key, reg, stopped, stopCh, crashed, usedIds>>
    /\ UNCHANGED <<mgrVars, writes, sinceWrite, deregKey, lapsed, parseFailure, discVars, restVars, kv>>

\* r.store(ctx) failed (an error or the 5 s timeout): logged; cancel();
\* r.mu.Unlock(); back to the select
HbStoreFail ==
    /\ ~crashed
    /\ hbPc = "store"
    /\ hbFails' = IF hbFails < MaxFails THEN hbFails + 1 ELSE hbFails
    /\ mu' = "free"
    /\ hbPc' = "select"
    /\ hbWait' = 0
    /\ UNCHANGED <<key, reg, stopped, stopCh, timer, tickPending, crashed, usedIds>>
    /\ UNCHANGED <<mgrVars, writes, sinceWrite, deregKey, lapsed, parseFailure, discVars, restVars, kv>>

(***************************************************************************)
(* manager.go: Manager.Close, with Registrar.Deregister (register.go).     *)
(***************************************************************************)
\* m.mu.Lock(); if m.closed { return nil }; m.closed = true
CloseBegin ==
    /\ ~crashed
    /\ mgr = "ready"
    /\ closePc = "idle"
    /\ mmu = "free"
    /\ IF closed
       THEN /\ closeRes' = "nil"
            /\ UNCHANGED <<closed, mmu, closePc>>
       ELSE /\ closed' = TRUE
            /\ mmu' = "close"
            /\ closePc' = IF hasRegistrar THEN "deregister" ELSE "natsClose"
            /\ closeRes' = "none"
    /\ UNCHANGED <<build, mgr, opts, hasRegistrar, natsDown, parsePc, parseRes, deregRes>>
    /\ UNCHANGED <<regVars, histVars, discVars, restVars, kv>>

\* Deregister: r.mu.Lock(); r.stopped = true; close(r.stopCh);
\* with r.key == "" it returns nil at once
DeregisterBegin ==
    /\ ~crashed
    /\ closePc = "deregister"
    /\ mu = "free"
    /\ stopped' = TRUE
    /\ IF stopCh = "closed"
       THEN \* close of a closed channel
            /\ crashed' = TRUE
            /\ UNCHANGED <<mu, stopCh, closePc, deregRes>>
       ELSE /\ stopCh' = "closed"
            /\ UNCHANGED crashed
            /\ IF key # <<>>
               THEN /\ mu' = "deregister"
                    /\ closePc' = "delete"
                    /\ UNCHANGED deregRes
               ELSE /\ deregRes' = "nil"
                    /\ closePc' = "natsClose"
                    /\ UNCHANGED mu
    /\ UNCHANGED <<build, mgr, opts, hasRegistrar, closed, mmu, natsDown, parsePc, parseRes, closeRes>>
    /\ UNCHANGED <<key, reg, hbPc, timer, tickPending, hbWait, usedIds>>
    /\ UNCHANGED <<histVars, discVars, restVars, kv>>

\* return r.kv.Delete(ctx, r.key): the delete succeeded
DeregisterDeleteOk ==
    /\ ~crashed
    /\ closePc = "delete"
    /\ ~natsDown
    /\ kv' = KvDelete(kv, key)
    /\ deregRes' = "nil"
    /\ deregKey' = key
    /\ mu' = "free"
    /\ closePc' = "natsClose"
    /\ UNCHANGED <<build, mgr, opts, hasRegistrar, closed, mmu, natsDown, parsePc, parseRes, closeRes>>
    /\ UNCHANGED <<key, reg, stopped, stopCh, hbPc, timer, tickPending, hbWait, crashed, usedIds>>
    /\ UNCHANGED <<writes, sinceWrite, hbFails, lapsed, parseFailure, discVars, restVars>>

\* return r.kv.Delete(ctx, r.key): the delete failed
DeregisterDeleteFail ==
    /\ ~crashed
    /\ closePc = "delete"
    /\ deregRes' = "err"
    /\ mu' = "free"
    /\ closePc' = "natsClose"
    /\ UNCHANGED <<build, mgr, opts, hasRegistrar, closed, mmu, natsDown, parsePc, parseRes, closeRes>>
    /\ UNCHANGED <<key, reg, stopped, stopCh, hbPc, timer, tickPending, hbWait, crashed, usedIds>>
    /\ UNCHANGED <<histVars, discVars, restVars, kv>>

\* CloseResult that returns the Deregister error instead of logging it
CloseResultPropagates(derr, nerr) ==
    IF derr # "nil" THEN "errDeregister" ELSE IF nerr # "nil" THEN "errClosingNATS" ELSE "nil"

\* what Close returns once Deregister has returned derr and NATSNode.Close nerr:
\* a Deregister error is logged only
CloseResult(derr, nerr) == IF nerr # "nil" THEN "errClosingNATS" ELSE "nil"

\* if m.natsNode != nil { m.natsNode.Close() } (NATSNode.Close returns nil); return
CloseNats ==
    /\ ~crashed
    /\ closePc = "natsClose"
    /\ natsDown' = (~opts.disableNATS)
    /\ closeRes' = CloseResult(IF hasRegistrar THEN deregRes ELSE "nil", "nil")
    /\ mmu' = "free"
    /\ closePc' = "idle"
    /\ UNCHANGED <<build, mgr, opts, hasRegistrar, closed, parsePc, parseRes, deregRes>>
    /\ UNCHANGED <<regVars, histVars, discVars, restVars, kv>>

(***************************************************************************)
(* Time.  A goroutine that can take a step takes it before the clock       *)
(* moves; a store call returns within its context's timeout.               *)
(***************************************************************************)
TickerRunning == ~crashed /\ hbPc \in {"select", "lock", "check", "store"}

Urgent ==
    /\ ~crashed
    /\ \/ hbPc = "start"
       \/ hbPc = "select" /\ (tickPending \/ stopCh = "closed")
       \/ hbPc = "lock" /\ mu = "free"
       \/ hbPc = "check"
       \/ hbPc = "store" /\ hbWait >= HeartbeatStoreTimeout

\* one second passes
Tick ==
    /\ DOMAIN kv # {} \/ TickerRunning
    /\ ~Urgent
    /\ kv' = KvAge(kv)
    /\ sinceWrite' = IF sinceWrite < 0 \/ sinceWrite >= BucketTTL THEN sinceWrite ELSE sinceWrite + 1
    /\ IF TickerRunning
       THEN /\ timer' = IF timer = 1 THEN opts.interval ELSE timer - 1
            /\ tickPending' = (tickPending \/ timer = 1)
       ELSE UNCHANGED <<timer, tickPending>>
    /\ hbWait' = IF hbPc = "store" /\ ~crashed THEN hbWait + 1 ELSE hbWait
    /\ UNCHANGED <<mu, key, reg, stopped, stopCh, hbPc, crashed, usedIds>>
    /\ UNCHANGED <<mgrVars, writes, hbFails, deregKey, lapsed, parseFailure, discVars, restVars>>

(***************************************************************************)
(* The process from construction to shutdown.                              *)
(***************************************************************************)
DiscInit ==
    /\ subActive = FALSE
    /\ updates = <<>>
    /\ updClosed = FALSE
    /\ wStopCh = "open"
    /\ wPc = "none"
    /\ wEntry = NilEntry
    /\ wName = <<>>
    /\ wKind = "none"
    /\ stopPc = "idle"
    /\ calls = <<>>
    /\ lateCall = FALSE
    /\ snap = NoSnap
    /\ storeOps = 0

RegInit ==
    /\ mgr = "none"
    /\ opts = NoOptions
    /\ hasRegistrar = FALSE
    /\ closed = FALSE
    /\ mmu = "free"
    /\ natsDown = FALSE
    /\ parsePc = "idle"
    /\ parseRes = "none"
    /\ closePc = "idle"
    /\ closeRes = "none"
    /\ deregRes = "none"
    /\ mu = "free"
    /\ key = <<>>
    /\ reg = NoReg
    /\ stopped = FALSE
    /\ stopCh = "open"
    /\ hbPc = "none"
    /\ timer = 0
    /\ tickPending = FALSE
    /\ hbWait = 0
    /\ crashed = FALSE
    /\ usedIds = {}
    /\ writes = {}
    /\ sinceWrite = 0 - 1
    /\ hbFails = 0
    /\ deregKey = <<>>
    /\ lapsed = FALSE
    /\ parseFailure = "none"

(***************************************************************************)
(* The tool, its functions and secret resolution before they are used.      *)
(***************************************************************************)
NoArgs ==
    [schemaDump |-> FALSE, checkDeps |-> FALSE, checkConsumers |-> FALSE,
     selfCheck |-> FALSE, prSchema |-> FALSE, repo |-> <<>>]
NoFile == [exists |-> FALSE, json |-> FALSE, fields |-> <<>>]
MalformedFile == [exists |-> TRUE, json |-> FALSE, fields |-> <<>>]
SchemaFile(fields) == [exists |-> TRUE, json |-> TRUE, fields |-> fields]
NoOut == [err |-> FALSE, lines |-> {}, json |-> [json |-> FALSE]]
NoDriftIn == [current |-> <<>>, pr |-> <<>>]
NoDriftOut == [fn |-> "none", lines |-> {}]

ToolIdle ==
    /\ toolArgs = NoArgs
    /\ prFile = NoFile
    /\ toolPc = "none"
    /\ toolExit = 0 - 1
    /\ toolOut = NoOut

DriftIdle ==
    /\ driftIn = NoDriftIn
    /\ driftOut = NoDriftOut

SecIdle ==
    /\ environ = <<>>
    /\ envBefore = <<>>
    /\ secPc = "none"
    /\ toResolve = <<>>
    /\ resolved = <<>>
    /\ secRes = "none"
    /\ evalCalls = 0

\* a file of the .auth directory: present with a content, or not there
NoSuchFile == [exists |-> FALSE, content |-> <<>>]
File(content) == [exists |-> TRUE, content |-> content]
NoWorld ==
    [natsAuth |-> <<>>, modeFile |-> NoSuchFile, natsToken |-> <<>>,
     tokenFile |-> NoSuchFile, pubFile |-> "absent", seedFile |-> "absent",
     credsDir |-> FALSE, userCreds |-> "absent", operator |-> "absent"]
NoCreds == [kind |-> "none", token |-> <<>>, pub |-> "", account |-> ""]
NoAttempt == [made |-> FALSE, creds |-> NoCreds, accepted |-> FALSE, running |-> FALSE]
NoAuthCfg == [nil |-> TRUE, mode |-> <<>>, token |-> <<>>, nkeyPub |-> "", credsDir |-> FALSE]
NoSrvOpts == [authorization |-> <<>>, nkeys |-> {}, trusted |-> FALSE, accounts |-> {}]

NoConfOut == [done |-> FALSE, fields |-> <<>>]

AuthIdle ==
    /\ authWorld = NoWorld
    /\ authPc = "none"
    /\ authMode = <<>>
    /\ authCfg = NoAuthCfg
    /\ authErr = "none"
    /\ srvOpts = NoSrvOpts
    /\ server = "none"
    /\ client = NoAttempt

ConfIdle ==
    /\ confIn = <<>>
    /\ confOut = NoConfOut

MultiIdle ==
    /\ oldLoops = 0
    /\ lateCloses = 0

MoreIdle == AuthIdle /\ ConfIdle /\ MultiIdle

RestInit == ToolIdle /\ DriftIdle /\ SecIdle /\ MoreIdle

Init ==
    /\ build \in [org : Orgs, repo : Repos]
    /\ RegInit
    /\ kv = <<>>
    /\ DiscInit
    /\ RestInit

Next ==
    \/ New
    \/ ParseBegin
    \/ ParseSecrets
    \/ ParseConf
    \/ RegisterBegin
    \/ RegisterStoreOk
    \/ RegisterStoreFail
    \/ HbStart
    \/ HbSelectStop
    \/ HbSelectTick
    \/ HbLock
    \/ HbCheck
    \/ HbStoreOk
    \/ HbStoreFail
    \/ CloseBegin
    \/ DeregisterBegin
    \/ DeregisterDeleteOk
    \/ DeregisterDeleteFail
    \/ CloseNats
    \/ Tick

Spec == Init /\ [][Next]_vars

\* the same process, with the scheduler running every goroutine that can take
\* a step and the clock moving on
\* (the heartbeat loop reads nothing of the build identity: one build is enough)
FairInit ==
    /\ build = [org |-> <<"a">>, repo |-> <<"b">>]
    /\ RegInit
    /\ kv = <<>>
    /\ DiscInit
    /\ RestInit

FairSpec ==
    /\ FairInit
    /\ [][Next]_vars
    /\ WF_vars(Tick)
    /\ WF_vars(HbSelectTick)
    /\ WF_vars(HbLock)
    /\ WF_vars(HbCheck)

(***************************************************************************)
(* Properties of registration and heartbeat.                               *)
(***************************************************************************)
HbRunning == hbPc \in {"select", "lock", "check", "store"}
Registered == \E w \in writes : w.by = "register"

\* C1: once Deregister has returned after a successful delete, the heartbeat
\* never writes the key again: it is in no store call, and a read of the
\* deleted key finds nothing.
C1_NoWriteAfterDeregister ==
    deregKey # <<>> => (hbPc # "store" /\ ~Readable(deregKey))

\* Deregister returned while the heartbeat had already taken a tick and now
\* holds the lock, about to test r.stopped.
C1_Witness ==
    /\ deregKey # <<>>
    /\ hbPc = "check"
    /\ \E w \in writes : w.by = "heartbeat" /\ w.key = deregKey

\* C3: a failed heartbeat write neither ends the loop nor crashes the process,
\* and unless Deregister is called a new write attempt follows.
C3_FailedWriteIsRetried ==
    /\ [](hbFails > 0 /\ ~stopped => HbRunning /\ ~crashed)
    /\ ((hbFails > 0 /\ hbPc = "select") ~> (hbPc = "store" \/ stopped))

\* a new attempt is in flight after two consecutive failures
C3_Witness == hbFails >= 2 /\ hbPc = "store" /\ ~stopped

\* C4 as stated: with 0 < I < T, successive successful writes keep the key
\* readable throughout.
C4_Original_ReadableWheneverTTLExceedsInterval ==
    (opts.interval > 0 /\ opts.interval < BucketTTL) => ~lapsed

\* C4, amended: with I + (the store timeout) < T the key is readable while the
\* heartbeat's writes succeed and never lapses between two successful writes;
\* after a successful write and without Deregister it stays readable until T
\* seconds have passed (so for at least T - I), and it is unreadable once T
\* seconds have passed since that write.
C4_ReadableUntilTTL ==
    /\ (opts.interval > 0 /\ opts.interval + HeartbeatStoreTimeout < BucketTTL)
          => /\ ~lapsed
             /\ (Registered /\ HbRunning /\ hbFails = 0 /\ ~stopped) => Readable(key)
    /\ (sinceWrite >= 0 /\ sinceWrite < BucketTTL /\ ~stopped) => Readable(key)
    /\ (sinceWrite >= BucketTTL) => ~Readable(key)

\* the key is still readable 29 s after the last successful write, two
\* heartbeat writes having failed since
C4_Witness ==
    /\ opts.interval = DefaultHeartbeatInterval
    /\ sinceWrite = BucketTTL - 1
    /\ hbFails >= 2
    /\ Readable(key)
    /\ \E w \in writes : w.by = "heartbeat"

\* C5: the TTL of the stored registration is greater than every heartbeat
\* interval a Manager is configured with.
C5_TTLExceedsInterval ==
    hasRegistrar => BucketTTL > opts.interval

\* C8 as stated: every write uses org.repo.instanceID.
C8_Original_KeyIsOrgRepoInstance ==
    \A w \in writes : w.key = w.reg.github.org \o <<".">> \o w.reg.github.repo \o <<".">> \o w.reg.instance.id

\* C8, amended: every write by Register and by the heartbeat uses
\* org.repo.instanceID when the build sets both org and repo, and
\* unknown.instanceID otherwise; the registration stored is the build's.
C8_KeyFormat ==
    \A w \in writes :
        /\ w.reg.github = [org |-> build.org, repo |-> build.repo]
        /\ w.key = IF build.org # <<>> /\ build.repo # <<>>
                   THEN build.org \o <<".">> \o build.repo \o <<".">> \o w.reg.instance.id
                   ELSE <<"u", "n", "k", "n", "o", "w", "n", ".">> \o w.reg.instance.id

\* Register and the heartbeat have both written, for a build without org
C8_Witness ==
    /\ build.org = <<>>
    /\ \E w \in writes : w.by = "register"
    /\ \E w \in writes : w.by = "heartbeat"

\* C9: when secret resolution or configuration parsing fails, Parse returns
\* that error having written nothing and started no heartbeat; when New fails
\* there is no Manager to register anything.
C9_StartupFailureRegistersNothing ==
    /\ parseFailure # "none" =>
          /\ parsePc = "idle"
          /\ parseRes = (IF parseFailure = "secrets" THEN "errSecrets" ELSE "errConf")
          /\ writes = {}
          /\ hbPc = "none"
    /\ mgr = "failed" => (parsePc = "idle" /\ parseRes = "none" /\ writes = {} /\ hbPc = "none")

\* configuration parsing failed on a Manager that has a registrar
C9_Witness == parseFailure = "conf" /\ hasRegistrar /\ parseRes = "errConf"

\* C10: when the delete fails Deregister returns the error, the heartbeat is
\* stopped all the same, and Close returns nil with the NATS node shut down.
C10_DeleteFailureIsNotFatal ==
    deregRes = "err" =>
        /\ stopped /\ stopCh = "closed" /\ hbPc # "store"
        /\ closePc = "idle" => (closeRes = "nil" /\ natsDown)

\* Close has returned after a failed delete; the heartbeat goroutine, which
\* had written before, has ended
C10_Witness ==
    /\ deregRes = "err"
    /\ closePc = "idle"
    /\ hbPc = "done"
    /\ \E w \in writes : w.by = "heartbeat"

(***************************************************************************)
(* discovery.go: watchers and snapshot reads, against a registry that      *)
(* other instances of several services write to.                           *)
(***************************************************************************)
\* the services whose instances register: a/b, a/b.c and a build without org
DiscIdentities ==
    {[org |-> <<"a">>, repo |-> <<"b">>],
     [org |-> <<"a">>, repo |-> <<"b", ".", "c">>],
     [org |-> <<>>,    repo |-> <<"b">>]}
\* the names WatchService and GetService are called with: a/b, a/b.c and ab
DiscNames == {<<"a", "/", "b">>, <<"a", "/", "b", ".", "c">>, <<"a", "b">>}

RegistrationOf(ident, id) == [github |-> ident, instance |-> [id |-> id], fields |-> <<>>]

\* the permutations of a finite set, as sequences
Perms(S) ==
    {f \in [1..Cardinality(S) -> S] : \A i, j \in 1..Cardinality(S) : f[i] = f[j] => i = j}

\* ServicePattern with ">" for "*": every subject below org.repo
ServicePatternTail(name) ==
    LET parts == SplitSlash(name)
    IN  parts[1] \o <<".">> \o parts[2] \o <<".", ">">>

\* WatchService: pattern := parts[0] + "." + parts[1] + ".*"
ServicePattern(name) ==
    LET parts == SplitSlash(name)
    IN  parts[1] \o <<".">> \o parts[2] \o <<".", "*">>

\* the subjects the watcher's subscription covers (WatchAll: every key)
WatchPattern == IF wKind = "service" THEN ServicePattern(wName) ELSE <<">">>

\* Updates() after the store has published entry e for key k
Delivered(k, e) ==
    IF subActive /\ SubjectMatches(WatchPattern, k) THEN Append(updates, e) ELSE updates
CanDeliver(k) ==
    (subActive /\ SubjectMatches(WatchPattern, k)) => Len(updates) < MaxUpdates

\* another instance registers or heartbeats (Registrar.Register / store)
DiscPut ==
    /\ storeOps < MaxStoreOps
    /\ \E ident \in DiscIdentities, id \in InstanceIDs :
        LET r == RegistrationOf(ident, id)
            k == RegistryKeyOf(r)
        IN  /\ CanDeliver(k)
            /\ kv' = KvPut(kv, k, Marshal(r))
            /\ updates' = Delivered(k, PutEntry(k, Marshal(r)))
    /\ storeOps' = storeOps + 1
    /\ UNCHANGED <<subActive, updClosed, wStopCh, wPc, wEntry, wName, wKind, stopPc, calls, lateCall, snap>>
    /\ UNCHANGED <<restVars, mgrVars, regVars, histVars>>

\* a value that is no registration is written under a key of the registry
DiscPutMalformed ==
    /\ storeOps < MaxStoreOps
    /\ \E ident \in DiscIdentities, id \in InstanceIDs :
        LET k == RegistryKeyOf(RegistrationOf(ident, id))
        IN  /\ CanDeliver(k)
            /\ kv' = KvPut(kv, k, [json |-> FALSE])
            /\ updates' = Delivered(k, PutEntry(k, [json |-> FALSE]))
    /\ storeOps' = storeOps + 1
    /\ UNCHANGED <<subActive, updClosed, wStopCh, wPc, wEntry, wName, wKind, stopPc, calls, lateCall, snap>>
    /\ UNCHANGED <<restVars, mgrVars, regVars, histVars>>

\* another instance deregisters (Registrar.Deregister)
DiscDelete ==
    /\ storeOps < MaxStoreOps
    /\ \E k \in DOMAIN kv :
        /\ CanDeliver(k)
        /\ kv' = KvDelete(kv, k)
        /\ updates' = Delivered(k, DelEntry(k))
    /\ storeOps' = storeOps + 1
    /\ UNCHANGED <<subActive, updClosed, wStopCh, wPc, wEntry, wName, wKind, stopPc, calls, lateCall, snap>>
    /\ UNCHANGED <<restVars, mgrVars, regVars, histVars>>

\* an entry outlives the bucket's TTL: it is gone, and no event is published
DiscExpire ==
    /\ storeOps < MaxStoreOps
    /\ \E k \in DOMAIN kv : kv' = KvDelete(kv, k)
    /\ storeOps' = storeOps + 1
    /\ UNCHANGED <<subActive, updates, updClosed, wStopCh, wPc, wEntry, wName, wKind, stopPc, calls, lateCall, snap>>
    /\ UNCHANGED <<restVars, mgrVars, regVars, histVars>>

\* WatchService(kv, name, fn): kv.Watch(ctx, pattern) replays the current
\* values, then a nil entry; the goroutine is started
WatchService ==
    /\ wKind = "none"
    /\ \E name \in DiscNames :
        IF Len(SplitSlash(name)) # 2
        THEN \* invalid service name: an error, no watcher
             UNCHANGED <<subActive, updates, wPc, wName, wKind>>
        ELSE LET now == {k \in DOMAIN kv : SubjectMatches(ServicePattern(name), k)}
             IN  /\ Cardinality(now) < MaxUpdates
                 /\ \E order \in Perms(now) :
                      updates' = [i \in 1..Cardinality(now) |-> PutEntry(order[i], kv[order[i]].val)]
                                    \o <<NilEntry>>
                 /\ subActive' = TRUE
                 /\ wPc' = "select"
                 /\ wName' = name
                 /\ wKind' = "service"
    /\ UNCHANGED <<updClosed, wStopCh, wEntry, stopPc, calls, lateCall, snap, storeOps>>
    /\ UNCHANGED <<restVars, mgrVars, regVars, histVars, kv>>

\* WatchAll(kv, fn): kv.WatchAll(ctx)
WatchAll ==
    /\ wKind = "none"
    /\ Cardinality(DOMAIN kv) < MaxUpdates
    /\ \E order \in Perms(DOMAIN kv) :
         updates' = [i \in 1..Cardinality(DOMAIN kv) |-> PutEntry(order[i], kv[order[i]].val)]
                       \o <<NilEntry>>
    /\ subActive' = TRUE
    /\ wPc' = "select"
    /\ wName' = <<>>
    /\ wKind' = "all"
    /\ UNCHANGED <<updClosed, wStopCh, wEntry, stopPc, calls, lateCall, snap, storeOps>>
    /\ UNCHANGED <<restVars, mgrVars, regVars, histVars, kv>>

\* the goroutine's select: case <-sw.stopCh: return
WatcherSelectStop ==
    /\ wPc = "select"
    /\ wStopCh = "closed"
    /\ wPc' = "done"
    /\ UNCHANGED <<subActive, updates, updClosed, wStopCh, wEntry, wName, wKind, stopPc, calls, lateCall, snap, storeOps>>
    /\ UNCHANGED <<restVars, mgrVars, regVars, histVars, kv>>

\* WatcherSelectEntry that reads the first entry and leaves it in the channel
WatcherSelectEntryPeeks ==
    /\ wPc = "select"
    /\ \/ /\ updates # <<>>
          /\ wEntry' = Head(updates)
       \/ /\ updates = <<>>
          /\ updClosed
          /\ wEntry' = NilEntry
    /\ wPc' = "entry"
    /\ UNCHANGED <<subActive, updates, updClosed, wStopCh, wName, wKind, stopPc, calls, lateCall, snap, storeOps>>
    /\ UNCHANGED <<restVars, mgrVars, regVars, histVars, kv>>

\* the goroutine's select: case entry := <-watcher.Updates()
\* (a closed and drained channel yields nil)
WatcherSelectEntry ==
    /\ wPc = "select"
    /\ \/ /\ updates # <<>>
          /\ wEntry' = Head(updates)
          /\ updates' = Tail(updates)
       \/ /\ updates = <<>>
          /\ updClosed
          /\ wEntry' = NilEntry
          /\ UNCHANGED updates
    /\ wPc' = "entry"
    /\ UNCHANGED <<subActive, updClosed, wStopCh, wName, wKind, stopPc, calls, lateCall, snap, storeOps>>
    /\ UNCHANGED <<restVars, mgrVars, regVars, histVars, kv>>

\* EntryVerdict with the delete test left out: deletes reach every callback
EntryVerdictForwardsDeletes(kind, e) ==
    IF e.nil THEN "skip"
    ELSE IF e.op = "del" THEN "call"
    ELSE IF ~Unmarshal(e.val).ok THEN "skip"
    ELSE "call"

\* what the goroutine does with the entry it took: "skip" (continue) or "call"
EntryVerdict(kind, e) ==
    IF e.nil THEN "skip"
    ELSE IF e.op = "del" THEN (IF kind = "service" THEN "skip" ELSE "call")
    ELSE IF ~Unmarshal(e.val).ok THEN "skip"
    ELSE "call"

\* CallOf with the registration handed over on a delete as well
CallOfKeepsRegistration(kind, e) ==
    [key |-> e.key, hasReg |-> TRUE, reg |-> Unmarshal(e.val).reg, deleted |-> e.op = "del"]

\* the arguments of the callback for an entry
CallOf(kind, e) ==
    IF e.op = "del"
    THEN [key |-> e.key, hasReg |-> FALSE, reg |-> NoReg, deleted |-> TRUE]
    ELSE [key |-> e.key, hasReg |-> TRUE, reg |-> Unmarshal(e.val).reg, deleted |-> FALSE]

\* WatcherSkip with "return" for "continue": the goroutine ends on such an entry
WatcherSkipReturns ==
    /\ wPc = "entry"
    /\ EntryVerdict(wKind, wEntry) = "skip"
    /\ wPc' = "done"
    /\ UNCHANGED <<subActive, updates, updClosed, wStopCh, wEntry, wName, wKind, stopPc, calls, lateCall, snap, storeOps>>
    /\ UNCHANGED <<restVars, mgrVars, regVars, histVars, kv>>

\* nil, a delete (WatchService) or a value that does not deserialize: continue
WatcherSkip ==
    /\ wPc = "entry"
    /\ EntryVerdict(wKind, wEntry) = "skip"
    /\ wPc' = "select"
    /\ UNCHANGED <<subActive, updates, updClosed, wStopCh, wEntry, wName, wKind, stopPc, calls, lateCall, snap, storeOps>>
    /\ UNCHANGED <<restVars, mgrVars, regVars, histVars, kv>>

\* fn(reg) / fn(key, &reg, false) / fn(key, nil, true) is entered
WatcherCall ==
    /\ wPc = "entry"
    /\ EntryVerdict(wKind, wEntry) = "call"
    /\ Len(calls) < MaxCalls
    /\ calls' = Append(calls, CallOf(wKind, wEntry))
    /\ lateCall' = (lateCall \/ stopPc = "returned")
    /\ wPc' = "callback"
    /\ UNCHANGED <<subActive, updates, updClosed, wStopCh, wEntry, wName, wKind, stopPc, snap, storeOps>>
    /\ UNCHANGED <<restVars, mgrVars, regVars, histVars, kv>>

\* the callback returns; the loop goes round
WatcherCallReturns ==
    /\ wPc = "callback"
    /\ wPc' = "select"
    /\ UNCHANGED <<subActive, updates, updClosed, wStopCh, wEntry, wName, wKind, stopPc, calls, lateCall, snap, storeOps>>
    /\ UNCHANGED <<restVars, mgrVars, regVars, histVars, kv>>

\* ServiceWatcher.Stop: close(w.stopCh)
StopCloseCh ==
    /\ wKind # "none"
    /\ stopPc = "idle"
    /\ wStopCh' = "closed"
    /\ stopPc' = "unsubscribe"
    /\ UNCHANGED <<subActive, updates, updClosed, wPc, wEntry, wName, wKind, calls, lateCall, snap, storeOps>>
    /\ UNCHANGED <<restVars, mgrVars, regVars, histVars, kv>>

\* ServiceWatcher.Stop: return w.kvWatcher.Stop()
StopUnsubscribe ==
    /\ stopPc = "unsubscribe"
    /\ subActive' = FALSE
    /\ stopPc' = "returned"
    /\ UNCHANGED <<updates, updClosed, wStopCh, wPc, wEntry, wName, wKind, calls, lateCall, snap, storeOps>>
    /\ UNCHANGED <<restVars, mgrVars, regVars, histVars, kv>>

\* the client closes Updates() once the subscription is gone
UpdatesClosed ==
    /\ wKind # "none"
    /\ ~subActive
    /\ ~updClosed
    /\ updClosed' = TRUE
    /\ UNCHANGED <<subActive, updates, wStopCh, wPc, wEntry, wName, wKind, stopPc, calls, lateCall, snap, storeOps>>
    /\ UNCHANGED <<restVars, mgrVars, regVars, histVars, kv>>

\* kv.Keys(ctx): the keys of the bucket; jetstream reports a bucket that holds
\* no key as the error ErrNoKeysFound
KvKeys(store) == [err |-> DOMAIN store = {}, keys |-> DOMAIN store]

\* the registrations GetService(ctx, kv, name) returns from a store:
\* kv.Keys, strings.HasPrefix(key, prefix), kv.Get, json.Unmarshal
GetServiceResult(store, name) ==
    LET parts  == SplitSlash(name)
        prefix == parts[1] \o <<".">> \o parts[2] \o <<".">>
        keys   == {k \in KvKeys(store).keys : HasPrefix(k, prefix) /\ Unmarshal(store[k].val).ok}
    IN  {Unmarshal(store[k].val).reg : k \in keys}

\* the registrations GetAllServices(ctx, kv) returns from a store
GetAllServicesResult(store) ==
    {Unmarshal(store[k].val).reg : k \in {x \in KvKeys(store).keys : Unmarshal(store[x].val).ok}}

\* GetService(ctx, kv, name), with no write in progress
GetService ==
    /\ \E name \in DiscNames :
        snap' = IF Len(SplitSlash(name)) # 2
                THEN [kind |-> "service", name |-> name, err |-> TRUE, result |-> {}, store |-> kv]
                ELSE IF KvKeys(kv).err
                THEN [kind |-> "service", name |-> name, err |-> TRUE, result |-> {}, store |-> kv]
                ELSE [kind |-> "service", name |-> name, err |-> FALSE,
                      result |-> GetServiceResult(kv, name), store |-> kv]
    /\ UNCHANGED <<subActive, updates, updClosed, wStopCh, wPc, wEntry, wName, wKind, stopPc, calls, lateCall, storeOps>>
    /\ UNCHANGED <<restVars, mgrVars, regVars, histVars, kv>>

\* GetAllServices(ctx, kv), with no write in progress
GetAllServices ==
    /\ snap' = IF KvKeys(kv).err
                THEN [kind |-> "all", name |-> <<>>, err |-> TRUE, result |-> {}, store |-> kv]
                ELSE [kind |-> "all", name |-> <<>>, err |-> FALSE,
                      result |-> GetAllServicesResult(kv), store |-> kv]
    /\ UNCHANGED <<subActive, updates, updClosed, wStopCh, wPc, wEntry, wName, wKind, stopPc, calls, lateCall, storeOps>>
    /\ UNCHANGED <<restVars, mgrVars, regVars, histVars, kv>>

DiscSpecInit ==
    /\ build = [org |-> <<"a">>, repo |-> <<"b">>]
    /\ RegInit
    /\ kv = <<>>
    /\ DiscInit
    /\ RestInit

\* watchers against a registry that changes
WatchNext ==
    \/ DiscPut
    \/ DiscPutMalformed
    \/ DiscDelete
    \/ DiscExpire
    \/ WatchService
    \/ WatchAll
    \/ WatcherSelectStop
    \/ WatcherSelectEntry
    \/ WatcherSkip
    \/ WatcherCall
    \/ WatcherCallReturns
    \/ StopCloseCh
    \/ StopUnsubscribe
    \/ UpdatesClosed

WatchSpec == DiscSpecInit /\ [][WatchNext]_vars

\* snapshot reads of a registry that changes
SnapNext ==
    \/ DiscPut
    \/ DiscPutMalformed
    \/ DiscDelete
    \/ DiscExpire
    \/ GetService
    \/ GetAllServices

SnapSpec == DiscSpecInit /\ [][SnapNext]_vars

\* watchers and snapshot reads side by side
ReadNext ==
    \/ WatchNext
    \/ GetService
    \/ GetAllServices

ReadSpec == DiscSpecInit /\ [][ReadNext]_vars

(***************************************************************************)
(* Properties of discovery.                                                *)
(***************************************************************************)
\* the identity a service name stands for
IdentityOf(name) == [org |-> SplitSlash(name)[1], repo |-> SplitSlash(name)[2]]

\* C2: no callback invocation starts after Stop() has returned.
C2_NoCallbackAfterStop == ~lateCall

\* C6: a watcher created by WatchService(X) only ever hands its callback
\* registrations of identity X, stored under a key of X.
C6_WatcherSeesOnlyItsService ==
    wKind = "service" =>
        \A i \in 1..Len(calls) :
            /\ calls[i].hasReg
            /\ calls[i].reg.github = IdentityOf(wName)
            /\ calls[i].key = KVKey(calls[i].reg)

\* the watcher on a/b has called back for an instance of a/b while an
\* instance of a/b.c is registered too
C6_Witness ==
    /\ wKind = "service"
    /\ wName = <<"a", "/", "b">>
    /\ Len(calls) >= 1
    /\ \E k \in DOMAIN kv :
          /\ Unmarshal(kv[k].val).ok
          /\ Unmarshal(kv[k].val).reg.github = [org |-> <<"a">>, repo |-> <<"b", ".", "c">>]

\* the registrations a store holds for an identity: the values that
\* deserialize and carry that identity
StoredFor(store, ident) ==
    {Unmarshal(store[k].val).reg :
        k \in {x \in DOMAIN store : Unmarshal(store[x].val).ok
                                     /\ Unmarshal(store[x].val).reg.github = ident}}
StoredAll(store) ==
    {Unmarshal(store[k].val).reg : k \in {x \in DOMAIN store : Unmarshal(store[x].val).ok}}

\* C7: GetService(X) returns exactly the readable registrations stored by
\* instances of X, GetAllServices exactly all of them, and both succeed.
C7_SnapshotIsExact ==
    /\ (snap.kind = "service" /\ Len(SplitSlash(snap.name)) = 2) =>
          /\ ~snap.err
          /\ snap.result = StoredFor(snap.store, IdentityOf(snap.name))
    /\ snap.kind = "all" => (~snap.err /\ snap.result = StoredAll(snap.store))


(***************************************************************************)
(* Properties of the watchers' callbacks.                                  *)
(***************************************************************************)
\* the goroutine has finished with the entry it took
EntryHandled == wPc = "entry" /\ wPc' # "entry"
\* the entry the goroutine holds is a put of a value that deserializes
ValidPut(e) == ~e.nil /\ e.op = "put" /\ Unmarshal(e.val).ok
\* the entry the goroutine holds is a put of a value that does not
MalformedPut(e) == ~e.nil /\ e.op = "put" /\ ~Unmarshal(e.val).ok

\* C11: a WatchService watcher calls back exactly once for each put it
\* receives whose value deserializes, with the deserialized registration,
\* and not at all for any other entry (a delete in particular); nothing else
\* adds a call.
C11_CallbackOncePerValidPut ==
    [][wKind = "service" =>
        /\ EntryHandled =>
             IF ValidPut(wEntry)
             THEN calls' = Append(calls, [key |-> wEntry.key, hasReg |-> TRUE,
                                          reg |-> Unmarshal(wEntry.val).reg,
                                          deleted |-> FALSE])
             ELSE calls' = calls
        /\ calls' # calls => EntryHandled]_vars

\* a WatchService watcher has called back for a put and then skipped a delete
C11_Witness ==
    /\ wKind = "service"
    /\ Len(calls) = 1
    /\ wPc = "select"
    /\ ~wEntry.nil
    /\ wEntry.op = "del"
    /\ wEntry.key = calls[1].key

\* C12 as stated: a WatchAll watcher calls back for every put and every
\* delete it receives.
C12_Original_CallbackForEveryEvent ==
    [][(wKind = "all" /\ EntryHandled /\ ~wEntry.nil) => Len(calls') = Len(calls) + 1]_vars

\* C12: a WatchAll watcher calls back for every delete it receives with the
\* key, no registration and deleted = true, and for every put whose value
\* deserializes with the key, the registration and deleted = false; a put
\* whose value does not deserialize gives no call.
C12_CallbackForEveryReadableEvent ==
    [][(wKind = "all" /\ EntryHandled) =>
        IF ~wEntry.nil /\ wEntry.op = "del"
        THEN calls' = Append(calls, [key |-> wEntry.key, hasReg |-> FALSE,
                                     reg |-> NoReg, deleted |-> TRUE])
        ELSE IF ValidPut(wEntry)
        THEN calls' = Append(calls, [key |-> wEntry.key, hasReg |-> TRUE,
                                     reg |-> Unmarshal(wEntry.val).reg,
                                     deleted |-> FALSE])
        ELSE calls' = calls]_vars

\* a WatchAll watcher has called back for a put and for the delete of the
\* same key
C12_Witness ==
    /\ wKind = "all"
    /\ Len(calls) = 2
    /\ ~calls[1].deleted
    /\ calls[2].deleted
    /\ calls[2].key = calls[1].key

\* C13: a value that does not deserialize is skipped on its own. The
\* watcher's goroutine goes back to its select with its subscription and the
\* entries still queued untouched and nothing called; a snapshot read of a
\* store that holds such a value succeeds and returns every registration the
\* store holds for the service asked for (GetAllServices: all of them).
C13_MalformedValueIsSkipped ==
    /\ [][(EntryHandled /\ MalformedPut(wEntry)) =>
            /\ wPc' = "select"
            /\ UNCHANGED <<calls, subActive, updates, updClosed>>]_vars
    /\ [](/\ snap.kind # "none"
          /\ (snap.kind = "service" => Len(SplitSlash(snap.name)) = 2)
          /\ \E k \in DOMAIN snap.store : ~Unmarshal(snap.store[k].val).ok
          => /\ ~snap.err
             /\ IF snap.kind = "service"
                THEN StoredFor(snap.store, IdentityOf(snap.name)) \subseteq snap.result
                ELSE StoredAll(snap.store) \subseteq snap.result)

\* the store holds a malformed value and a registration; the watcher has
\* taken both, called back for the registration, which arrived after the
\* watch began, and a snapshot of this store has been read
C13_Witness ==
    /\ wKind # "none"
    /\ wPc = "callback"
    /\ updates = <<>>
    /\ Len(calls) = 1
    /\ ValidPut(wEntry)
    /\ calls[1].key = wEntry.key
    /\ \E k \in DOMAIN kv : ~Unmarshal(kv[k].val).ok /\ (wKind = "service" => SubjectMatches(WatchPattern, k))
    /\ snap.kind = "all"
    /\ snap.store = kv
    /\ snap.result # {}


(***************************************************************************)
(* cmd/wellknown-check: the functions of the drift-checking tool.          *)
(* A line of output is [kind, subject, detail]: subject and detail are     *)
(* sequences of strings. Lines printed from a loop over a Go map come in   *)
(* no fixed order: the output is the set of its lines.                     *)
(***************************************************************************)
\* field descriptors a list may hold in the model
MaxFields == 2

Line(kind, subject, detail) == [kind |-> kind, subject |-> subject, detail |-> detail]

\* fields.go, GetDependencies: the non-empty dependencies, each once, in order
GetDependencies(fields) ==
    LET First(i) == /\ fields[i].dependency # <<>>
                    /\ \A j \in 1..(i - 1) : fields[j].dependency # fields[i].dependency
        idx == SelectSeq([i \in 1..Len(fields) |-> i], First)
    IN  [n \in 1..Len(idx) |-> fields[idx[n]].dependency]

\* compareFields: currentMap[f.EnvKey] = f over the list; a later field with
\* the same EnvKey replaces an earlier one
FieldMap(fields) ==
    [k \in {fields[i].envKey : i \in 1..Len(fields)} |->
        fields[CHOOSE i \in 1..Len(fields) :
                  /\ fields[i].envKey = k
                  /\ \A j \in (i + 1)..Len(fields) : fields[j].envKey # k]]

\* FieldChanges without the comparison of the defaults
FieldChangesUnconditional(curr, pr) ==
    <<"default: " \o pr.default \o " -> " \o curr.default>>

\* compareFields: the changes slice of a key present in both maps
FieldChanges(curr, pr) ==
    (IF curr.default # pr.default
     THEN <<"default: " \o pr.default \o " -> " \o curr.default>> ELSE <<>>)
    \o (IF curr.required # pr.required
        THEN (IF curr.required THEN <<"now required">> ELSE <<"no longer required">>)
        ELSE <<>>)
    \o (IF curr.isSecret # pr.isSecret
        THEN (IF curr.isSecret THEN <<"now secret">> ELSE <<"no longer secret">>)
        ELSE <<>>)

\* CompareFields without the loop over the removed fields
CompareFieldsNoRemoved(current, pr) ==
    LET currentMap == FieldMap(current)
        prMap      == FieldMap(pr)
    IN  {Line("+", <<k>>, IF currentMap[k].required THEN <<"new", "required">> ELSE <<"new">>) :
            k \in DOMAIN currentMap \ DOMAIN prMap}
        \cup {Line("~", <<k>>, FieldChanges(currentMap[k], prMap[k])) :
                 k \in {x \in DOMAIN currentMap \cap DOMAIN prMap :
                           FieldChanges(currentMap[x], prMap[x]) # <<>>}}

\* compareFields(current, pr): the lines it prints
\*   "+ KEY (new[, required])", "- KEY (removed)", "~ KEY: [changes]"
CompareFields(current, pr) ==
    LET currentMap == FieldMap(current)
        prMap      == FieldMap(pr)
    IN  {Line("+", <<k>>, IF currentMap[k].required THEN <<"new", "required">> ELSE <<"new">>) :
            k \in DOMAIN currentMap \ DOMAIN prMap}
        \cup {Line("-", <<k>>, <<"removed">>) : k \in DOMAIN prMap \ DOMAIN currentMap}
        \cup {Line("~", <<k>>, FieldChanges(currentMap[k], prMap[k])) :
                 k \in {x \in DOMAIN currentMap \cap DOMAIN prMap :
                           FieldChanges(currentMap[x], prMap[x]) # <<>>}}

\* the descriptors the field lists of the model are made of
DriftFields ==
    {FieldInfo("APP_OLD_FLAG", "", FALSE, FALSE, <<>>),
     FieldInfo("APP_NEW_FEATURE", "", TRUE, FALSE, <<>>),
     FieldInfo("APP_TIMEOUT", "5s", FALSE, FALSE, <<>>),
     FieldInfo("APP_TIMEOUT", "10s", TRUE, TRUE, <<>>)}
FieldLists == UNION {[1..n -> DriftFields] : n \in 0..MaxFields}

\* compareFields applied to two field lists
ApplyCompareFields ==
    /\ driftOut.fn = "none"
    /\ driftOut' = [fn |-> "compareFields", lines |-> CompareFields(driftIn.current, driftIn.pr)]
    /\ UNCHANGED <<driftIn, toolVars, secVars, moreVars>>
    /\ UNCHANGED <<mgrVars, regVars, histVars, discVars, kv>>

DriftInit ==
    /\ build = [org |-> <<"a">>, repo |-> <<"b">>]
    /\ RegInit
    /\ kv = <<>>
    /\ DiscInit
    /\ ToolIdle
    /\ SecIdle
    /\ MoreIdle
    /\ driftIn \in [current : FieldLists, pr : FieldLists]
    /\ driftOut = NoDriftOut

DriftNext == ApplyCompareFields

DriftSpec == DriftInit /\ [][DriftNext]_vars

(***************************************************************************)
(* Properties of compareFields, read as Diff(current, candidate): the      *)
(* tool calls it with the service's registration as current and the file   *)
(* given by --pr-schema as the candidate.                                  *)
(***************************************************************************)
EnvKeys(fields) == {fields[i].envKey : i \in 1..Len(fields)}
LinesFor(k) == {l \in driftOut.lines : l.subject = <<k>>}

\* C17: each key of current that candidate lacks gives exactly one Removed
\* entry; each key of candidate that current lacks gives exactly one Added
\* entry, marked required (breaking) exactly when the candidate's field is
\* required.
C17_AddedAndRemoved ==
    driftOut.fn = "compareFields" =>
        /\ \A k \in EnvKeys(driftIn.current) \ EnvKeys(driftIn.pr) :
              LinesFor(k) = {Line("-", <<k>>, <<"removed">>)}
        /\ \A k \in EnvKeys(driftIn.pr) \ EnvKeys(driftIn.current) :
              LinesFor(k) = {Line("+", <<k>>, IF FieldMap(driftIn.pr)[k].required
                                             THEN <<"new", "required">> ELSE <<"new">>)}

\* C18: compareFields applied to a list and itself prints nothing.
C18_DiffOfSameIsEmpty ==
    (driftOut.fn = "compareFields" /\ driftIn.current = driftIn.pr) => driftOut.lines = {}

\* compareFields has been applied to a list, and itself, that names one key
\* twice with different attributes
C18_Witness ==
    /\ driftOut.fn = "compareFields"
    /\ driftIn.current = driftIn.pr
    /\ Len(driftIn.current) = 2
    /\ driftIn.current[1].envKey = driftIn.current[2].envKey
    /\ driftIn.current[1] # driftIn.current[2]


(***************************************************************************)
(* cmd/wellknown-check: the tool as a process, from its command line to    *)
(* its exit code.                                                          *)
(***************************************************************************)
\* Manager.Registration(): nil without a registrar, else a copy of r.reg
ManagerRegistration == [nil |-> ~hasRegistrar, reg |-> reg]

Fail == [err |-> TRUE, lines |-> {}, json |-> [json |-> FALSE]]
Printed(err, lines) == [err |-> err, lines |-> lines, json |-> [json |-> FALSE]]

\* dumpSchema(mgr, repo)
DumpSchema(mr, repo) ==
    IF mr.nil THEN Fail
    ELSE LET parts == SplitSlash(repo)
             r     == IF Len(parts) = 2
                      THEN [mr.reg EXCEPT !.github = [org |-> parts[1], repo |-> parts[2]]]
                      ELSE mr.reg
         IN  [err |-> FALSE, lines |-> {}, json |-> Marshal(r)]

\* selfCheckChanges(mgr, prSchemaPath): it returns an error only when there is
\* no registration or the file cannot be read or parsed
SelfCheckChanges(mr, withFile, file) ==
    IF mr.nil THEN Fail
    ELSE LET head == {Line("service", mr.reg.github.org \o <<"/">> \o mr.reg.github.repo, <<>>)}
         IN  IF withFile
             THEN IF ~file.exists \/ ~file.json
                  THEN Printed(TRUE, head)
                  ELSE Printed(FALSE, head \cup CompareFields(mr.reg.fields, file.fields))
             ELSE Printed(FALSE, head \cup
                                 {Line("field", <<mr.reg.fields[i].envKey>>, <<>>) :
                                     i \in 1..Len(mr.reg.fields)})

\* ServiceExists(ctx, kv, name): GetService, then len(instances) > 0
ServiceExists(store, name) ==
    IF Len(SplitSlash(name)) # 2 \/ KvKeys(store).err
    THEN [err |-> TRUE, exists |-> FALSE]
    ELSE [err |-> FALSE, exists |-> GetServiceResult(store, name) # {}]

\* checkDependencies(ctx, mgr)
CheckDependencies(mr, store) ==
    IF mr.nil THEN Fail
    ELSE LET deps == GetDependencies(mr.reg.fields)
             Verdict(dep) == IF ServiceExists(store, dep).err THEN "error"
                             ELSE IF ServiceExists(store, dep).exists THEN "available"
                             ELSE "not found"
         IN  IF Len(deps) = 0
             THEN Printed(FALSE, {Line("no dependencies", <<>>, <<>>)})
             ELSE Printed(\E i \in 1..Len(deps) : Verdict(deps[i]) # "available",
                          {Line(Verdict(deps[i]), deps[i], <<>>) : i \in 1..Len(deps)})

\* checkConsumerImpact(ctx, mgr, repo)
CheckConsumerImpact(mr, store, repo) ==
    LET thisService ==
            IF repo # <<>> THEN repo
            ELSE IF ~mr.nil /\ mr.reg.github.org # <<>>
            THEN mr.reg.github.org \o <<"/">> \o mr.reg.github.repo
            ELSE <<>>
        DependsOn(svc) ==
            \E i \in 1..Len(GetDependencies(svc.fields)) :
                GetDependencies(svc.fields)[i] = thisService
        consumers == {svc \in GetAllServicesResult(store) : DependsOn(svc)}
    IN  IF thisService = <<>> THEN Fail
        ELSE IF KvKeys(store).err THEN Fail
        ELSE IF consumers = {}
        THEN Printed(FALSE, {Line("no consumers", <<>>, <<>>)})
        ELSE Printed(FALSE, {Line("consumer", svc.github.org \o <<"/">> \o svc.github.repo, <<>>) :
                                svc \in consumers})

\* what the registry may hold when the tool runs: instances of a/b (the
\* service, which depends on a/c), of a/b.c (which depends on a/b) and of
\* a/c, and a value that is no registration
ToolEntries ==
    LET ab  == [github |-> [org |-> <<"a">>, repo |-> <<"b">>],
                instance |-> [id |-> <<"1">>], fields |-> ConfigFields]
        abc == [github |-> [org |-> <<"a">>, repo |-> <<"b", ".", "c">>],
                instance |-> [id |-> <<"2">>],
                fields |-> <<FieldInfo("X_UPSTREAM", "", FALSE, FALSE, <<"a", "/", "b">>)>>]
        ac  == RegistrationOf([org |-> <<"a">>, repo |-> <<"c">>], <<"1">>)
    IN  {[key |-> RegistryKeyOf(ab), val |-> Marshal(ab)],
         [key |-> RegistryKeyOf(abc), val |-> Marshal(abc)],
         [key |-> RegistryKeyOf(ac), val |-> Marshal(ac)],
         [key |-> <<"a", ".", "c", ".", "2">>, val |-> [json |-> FALSE]]}
ToolRegistries ==
    {[k \in {e.key : e \in S} |-> [val |-> (CHOOSE e \in S : e.key = k).val, age |-> 0]] :
        S \in SUBSET ToolEntries}

\* --repo: not given, a/b, a/c, or a name without a slash
ToolRepos == {<<>>, <<"a", "/", "b">>, <<"a", "/", "c">>, <<"a", "b">>}
\* the file --pr-schema names: missing, not JSON, or a schema without the
\* required field APP_AUTH of the service
ToolFiles == {NoFile, MalformedFile, SchemaFile(<<ConfigFields[1]>>), SchemaFile(ConfigFields)}

\* run(): flag.Parse(); at least one action flag is required
ToolFlags ==
    /\ toolPc = "start"
    /\ IF ~toolArgs.schemaDump /\ ~toolArgs.checkDeps /\ ~toolArgs.checkConsumers /\ ~toolArgs.selfCheck
       THEN toolPc' = "exited" /\ toolExit' = 1
       ELSE toolPc' = "new" /\ UNCHANGED toolExit
    /\ UNCHANGED <<toolArgs, prFile, toolOut, driftVars, secVars, moreVars>>
    /\ UNCHANGED <<mgrVars, regVars, histVars, discVars, kv>>

\* run(): env.New("WELLKNOWN_CHECK", WithoutGUI(), WithoutHeartbeat(), WithoutRegistration())
ToolNew ==
    /\ toolPc = "new"
    /\ \E envHB \in EnvChoices, started \in BOOLEAN :
        /\ opts' = BuildOptions(envHB, [given |-> FALSE, n |-> 0], FALSE, TRUE, TRUE)
        /\ IF started
           THEN /\ mgr' = "ready"
                /\ hasRegistrar' = ~opts'.disableRegistration
                /\ toolPc' = "action"
                /\ UNCHANGED toolExit
           ELSE /\ mgr' = "failed"
                /\ UNCHANGED hasRegistrar
                /\ toolPc' = "exited"
                /\ toolExit' = 1
    /\ UNCHANGED <<build, closed, mmu, natsDown, parsePc, parseRes, closePc, closeRes, deregRes>>
    /\ UNCHANGED <<toolArgs, prFile, toolOut, driftVars, secVars, moreVars>>
    /\ UNCHANGED <<regVars, histVars, discVars, kv>>

\* run(): the first action flag that is set, in the order schema-dump, self,
\* check-deps, check-consumers, decides what runs; the others are not looked at
ToolAction ==
    /\ toolPc = "action"
    /\ toolOut' =
         IF toolArgs.schemaDump THEN DumpSchema(ManagerRegistration, toolArgs.repo)
         ELSE IF toolArgs.selfCheck
         THEN SelfCheckChanges(ManagerRegistration, toolArgs.prSchema, prFile)
         ELSE IF toolArgs.checkDeps THEN CheckDependencies(ManagerRegistration, kv)
         ELSE CheckConsumerImpact(ManagerRegistration, kv, toolArgs.repo)
    /\ toolPc' = "close"
    /\ UNCHANGED <<toolArgs, prFile, toolExit, driftVars, secVars, moreVars>>
    /\ UNCHANGED <<mgrVars, regVars, histVars, discVars, kv>>

\* the deferred mgr.Close(), then main: os.Exit(1) if run returned an error
ToolClose ==
    /\ toolPc = "close"
    /\ closed' = TRUE
    /\ natsDown' = TRUE
    /\ toolExit' = IF toolOut.err THEN 1 ELSE 0
    /\ toolPc' = "exited"
    /\ UNCHANGED <<build, mgr, opts, hasRegistrar, mmu, parsePc, parseRes, closePc, closeRes, deregRes>>
    /\ UNCHANGED <<toolArgs, prFile, toolOut, driftVars, secVars, moreVars>>
    /\ UNCHANGED <<regVars, histVars, discVars, kv>>

ToolInit ==
    /\ build = [org |-> <<"a">>, repo |-> <<"b">>]
    /\ RegInit
    /\ kv \in ToolRegistries
    /\ DiscInit
    /\ DriftIdle
    /\ SecIdle
    /\ MoreIdle
    /\ toolArgs \in [schemaDump : BOOLEAN, checkDeps : BOOLEAN, checkConsumers : BOOLEAN,
                     selfCheck : BOOLEAN, prSchema : BOOLEAN, repo : ToolRepos]
    /\ prFile \in ToolFiles
    /\ toolPc = "start"
    /\ toolExit = 0 - 1
    /\ toolOut = NoOut

ToolNext ==
    \/ ToolFlags
    \/ ToolNew
    \/ ToolAction
    \/ ToolClose

ToolSpec == ToolInit /\ [][ToolNext]_vars


(***************************************************************************)
(* Properties of the tool. The service the tool is run for is a/b, whose   *)
(* configuration gives the descriptors ConfigFields.                       *)
(***************************************************************************)
\* the tool has run an action and exited
ToolRan == toolPc = "exited" /\ mgr = "ready"
\* a dependency named by the service's own descriptors has no registered instance
DepsUnavailable ==
    \E i \in 1..Len(ConfigFields) :
        /\ ConfigFields[i].dependency # <<>>
        /\ StoredFor(kv, IdentityOf(ConfigFields[i].dependency)) = {}
\* the schema given by --pr-schema lacks a required field of the service
RequiredRemoved ==
    /\ toolArgs.prSchema
    /\ prFile.exists /\ prFile.json
    /\ \E i \in 1..Len(ConfigFields) :
          ConfigFields[i].required /\ ConfigFields[i].envKey \notin EnvKeys(prFile.fields)
\* the command line asks for something that cannot be done at all
BadInput ==
    \/ toolArgs.selfCheck /\ toolArgs.prSchema /\ ~(prFile.exists /\ prFile.json)
    \/ toolArgs.checkConsumers /\ Len(SplitSlash(toolArgs.repo)) # 2


\* C14: for every combination of action flags, the exit code is non-zero
\* when a requested dependency check finds an unavailable dependency or
\* --self finds a required field removed, and 0 when no requested check
\* finds a breaking change.
C14_ExitCodeReflectsFindings ==
    ToolRan =>
        /\ (toolArgs.checkDeps /\ DepsUnavailable) => toolExit # 0
        /\ (toolArgs.selfCheck /\ RequiredRemoved) => toolExit # 0
        /\ (/\ ~(toolArgs.checkDeps /\ DepsUnavailable)
            /\ ~(toolArgs.selfCheck /\ RequiredRemoved)
            /\ ~BadInput) => toolExit = 0

\* C15: the dependency check fails exactly when an identity named by a
\* non-empty dependency of the service's own descriptors has no registered
\* instance, and reports exactly those identities as unavailable.
C15_DependencyCheck ==
    (ToolRan /\ toolArgs.checkDeps /\ ~toolArgs.schemaDump /\ ~toolArgs.selfCheck) =>
        /\ toolOut.err <=> DepsUnavailable
        /\ \A i \in 1..Len(ConfigFields) :
              LET dep == ConfigFields[i].dependency
              IN  dep # <<>> =>
                    (Line("available", dep, <<>>) \in toolOut.lines
                        <=> StoredFor(kv, IdentityOf(dep)) # {})

\* the identities of the registrations that declare a dependency on a name
ConsumersOf(store, name) ==
    {r.github : r \in {x \in StoredAll(store) :
                          \E i \in 1..Len(x.fields) : x.fields[i].dependency = name}}

\* C16: the consumer check of an identity lists exactly the identities of the
\* registrations that have a field whose dependency is that identity, and
\* succeeds, with an empty list when there is none, whatever the registry
\* holds.
C16_ConsumerImpact ==
    (/\ ToolRan
     /\ toolArgs.checkConsumers
     /\ ~toolArgs.schemaDump /\ ~toolArgs.selfCheck /\ ~toolArgs.checkDeps
     /\ Len(SplitSlash(toolArgs.repo)) = 2) =>
        /\ ~toolOut.err
        /\ toolExit = 0
        /\ {l.subject : l \in {x \in toolOut.lines : x.kind = "consumer"}}
              = {g.org \o <<"/">> \o g.repo : g \in ConsumersOf(kv, toolArgs.repo)}

\* C19: run with --schema-dump, the tool writes the service's registration
\* as JSON to standard output and exits 0.
C19_SchemaDump ==
    (ToolRan /\ toolArgs.schemaDump) => (toolExit = 0 /\ toolOut.json.json)


(***************************************************************************)
(* vals.go: ResolveEnvSecrets.                                             *)
(***************************************************************************)
\* const refPrefix = "ref+"
RefPrefix == <<"r", "e", "f", "+">>

\* the variables of the environment and the values they may hold: a plain
\* value, a plain value with "=" in it, a reference that resolves, one whose
\* plaintext holds a NUL byte (os.Setenv refuses it), one that does not resolve
SecNames == {<<"A">>, <<"B">>, <<"C">>}
SecValues ==
    {<<"v">>, <<"k", "=", "v">>, RefPrefix \o <<"o">>, RefPrefix \o <<"n">>, RefPrefix \o <<"x">>}

\* the resolver behind runtime.Eval, for one reference: [ok, plain]
Resolve(ref) ==
    IF ref = RefPrefix \o <<"o">> THEN [ok |-> TRUE, plain |-> <<"s">>]
    ELSE IF ref = RefPrefix \o <<"n">> THEN [ok |-> TRUE, plain |-> <<"s", "NUL">>]
    ELSE [ok |-> FALSE, plain |-> <<>>]

\* os.Environ(): the "NAME=value" strings
Environ(env) == {n \o <<"=">> \o env[n] : n \in DOMAIN env}

\* strings.SplitN(kv, "=", 2)
SplitEq(entry) ==
    IF \A i \in 1..Len(entry) : entry[i] # "="
    THEN <<entry>>
    ELSE LET i == CHOOSE j \in 1..Len(entry) : entry[j] = "=" /\ \A k \in 1..(j-1) : entry[k] # "="
         IN  <<SubSeq(entry, 1, i - 1), SubSeq(entry, i + 1, Len(entry))>>

\* CollectRefs without the test for the prefix: every variable is collected
CollectRefsAll(env) ==
    LET all == {e \in Environ(env) : Len(SplitEq(e)) = 2}
    IN  [n \in {SplitEq(e)[1] : e \in all} |->
            SplitEq(CHOOSE e \in all : SplitEq(e)[1] = n)[2]]

\* the first loop: the names whose value starts with ref+, with that value
CollectRefs(env) ==
    LET refs == {e \in Environ(env) : Len(SplitEq(e)) = 2 /\ HasPrefix(SplitEq(e)[2], RefPrefix)}
    IN  [n \in {SplitEq(e)[1] : e \in refs} |->
            SplitEq(CHOOSE e \in refs : SplitEq(e)[1] = n)[2]]

\* os.Setenv(key, value) fails on a value that holds a NUL byte
SetenvFails(value) == \E i \in 1..Len(value) : value[i] = "NUL"

\* ResolveEnvSecretsWithOptions: the environment is scanned
SecretsCollect ==
    /\ secPc = "start"
    /\ envBefore' = environ
    /\ toResolve' = CollectRefs(environ)
    /\ IF DOMAIN CollectRefs(environ) = {}
       THEN secPc' = "done" /\ secRes' = "nil"
       ELSE secPc' = "eval" /\ UNCHANGED secRes
    /\ UNCHANGED <<environ, resolved, evalCalls, toolVars, driftVars, moreVars>>
    /\ UNCHANGED <<mgrVars, regVars, histVars, discVars, kv>>

\* SecretsEval with the references that resolve handed on when another fails
SecretsEvalPartial ==
    /\ secPc = "eval"
    /\ evalCalls' = evalCalls + 1
    /\ LET good == {n \in DOMAIN toResolve : Resolve(toResolve[n]).ok}
       IN  resolved' = [n \in good |-> Resolve(toResolve[n]).plain]
    /\ secPc' = "set"
    /\ UNCHANGED <<environ, envBefore, toResolve, secRes, toolVars, driftVars, moreVars>>
    /\ UNCHANGED <<mgrVars, regVars, histVars, discVars, kv>>

\* vals.New(opts) and runtime.Eval(toResolve): every reference is resolved,
\* or an error is returned
SecretsEval ==
    /\ secPc = "eval"
    /\ \E runtimeOk \in BOOLEAN :
        IF ~runtimeOk
        THEN /\ secPc' = "done"
             /\ secRes' = "error"
             /\ UNCHANGED <<resolved, evalCalls>>
        ELSE /\ evalCalls' = evalCalls + 1
             /\ IF \E n \in DOMAIN toResolve : ~Resolve(toResolve[n]).ok
                THEN /\ secPc' = "done"
                     /\ secRes' = "error"
                     /\ UNCHANGED resolved
                ELSE /\ secPc' = "set"
                     /\ resolved' = [n \in DOMAIN toResolve |-> Resolve(toResolve[n]).plain]
                     /\ UNCHANGED secRes
    /\ UNCHANGED <<environ, envBefore, toResolve, toolVars, driftVars, moreVars>>
    /\ UNCHANGED <<mgrVars, regVars, histVars, discVars, kv>>

\* SecretsSetenv with a resolved name dropped without os.Setenv
SecretsSetenvSkips ==
    /\ secPc = "set"
    /\ IF DOMAIN resolved = {}
       THEN /\ secPc' = "done"
            /\ secRes' = "nil"
            /\ UNCHANGED <<environ, resolved>>
       ELSE \E n \in DOMAIN resolved :
              /\ resolved' = [x \in DOMAIN resolved \ {n} |-> resolved[x]]
              /\ UNCHANGED <<environ, secPc, secRes>>
    /\ UNCHANGED <<envBefore, toResolve, evalCalls, toolVars, driftVars, moreVars>>
    /\ UNCHANGED <<mgrVars, regVars, histVars, discVars, kv>>

\* the second loop, one pass: os.Setenv for one resolved name, in the order
\* the map gives them; after the last one the function returns nil
SecretsSetenv ==
    /\ secPc = "set"
    /\ IF DOMAIN resolved = {}
       THEN /\ secPc' = "done"
            /\ secRes' = "nil"
            /\ UNCHANGED <<environ, resolved>>
       ELSE \E n \in DOMAIN resolved :
              IF SetenvFails(resolved[n])
              THEN /\ secPc' = "done"
                   /\ secRes' = "error"
                   /\ UNCHANGED <<environ, resolved>>
              ELSE /\ environ' = [environ EXCEPT ![n] = resolved[n]]
                   /\ resolved' = [x \in DOMAIN resolved \ {n} |-> resolved[x]]
                   /\ UNCHANGED <<secPc, secRes>>
    /\ UNCHANGED <<envBefore, toResolve, evalCalls, toolVars, driftVars, moreVars>>
    /\ UNCHANGED <<mgrVars, regVars, histVars, discVars, kv>>

SecInit ==
    /\ build = [org |-> <<"a">>, repo |-> <<"b">>]
    /\ RegInit
    /\ kv = <<>>
    /\ DiscInit
    /\ ToolIdle
    /\ DriftIdle
    /\ MoreIdle
    /\ environ \in [SecNames -> SecValues]
    /\ envBefore = environ
    /\ secPc = "start"
    /\ toResolve = <<>>
    /\ resolved = <<>>
    /\ secRes = "none"
    /\ evalCalls = 0

SecNext ==
    \/ SecretsCollect
    \/ SecretsEval
    \/ SecretsSetenv

SecSpec == SecInit /\ [][SecNext]_vars

(***************************************************************************)
(* Properties of secret resolution.                                        *)
(***************************************************************************)
\* a reference of the environment the call started with does not resolve
ResolutionFails ==
    \E n \in DOMAIN envBefore :
        HasPrefix(envBefore[n], RefPrefix) /\ ~Resolve(envBefore[n]).ok

\* C20: if the resolution of a reference fails, ResolveEnvSecrets returns an
\* error and no variable of the environment is changed at any time.
C20_FailedResolutionChangesNothing ==
    (secPc # "start" /\ ResolutionFails) =>
        /\ environ = envBefore
        /\ secPc = "done" => secRes = "error"

\* the call has ended on a reference that does not resolve, with another
\* reference in the environment that does
C20_Witness ==
    /\ secPc = "done"
    /\ evalCalls = 1
    /\ ResolutionFails
    /\ \E n \in DOMAIN envBefore : envBefore[n] = RefPrefix \o <<"o">>

\* C21: after ResolveEnvSecrets has returned nil, every variable whose value
\* started with ref+ holds the plaintext the resolver gives for that
\* reference, and every other variable holds the value it had.
C21_SuccessReplacesReferencesOnly ==
    (secPc = "done" /\ secRes = "nil") =>
        \A n \in DOMAIN envBefore :
            environ[n] = IF HasPrefix(envBefore[n], RefPrefix)
                         THEN Resolve(envBefore[n]).plain
                         ELSE envBefore[n]

\* the call has succeeded on an environment with a reference, and with a
\* plain value that holds "="
C21_Witness ==
    /\ secPc = "done"
    /\ secRes = "nil"
    /\ evalCalls = 1
    /\ \E n \in DOMAIN envBefore : envBefore[n] = RefPrefix \o <<"o">>
    /\ \E n \in DOMAIN envBefore : envBefore[n] = <<"k", "=", "v">>


(***************************************************************************)
(* auth.go: LoadAuthConfig, ConfigureAuth, GetClientConnectOptions, and    *)
(* nats.go: StartNATSNode, which starts the embedded server with them.     *)
(* A text is a sequence of pieces, a piece being a word or white space.    *)
(***************************************************************************)
WhiteSpace == {" ", "\n"}

\* strings.TrimSpace
RECURSIVE TrimLeft(_)
TrimLeft(t) ==
    IF t # <<>> /\ Head(t) \in WhiteSpace THEN TrimLeft(Tail(t)) ELSE t
RECURSIVE TrimRight(_)
TrimRight(t) ==
    IF t # <<>> /\ t[Len(t)] \in WhiteSpace THEN TrimRight(SubSeq(t, 1, Len(t) - 1)) ELSE t
TrimSpace(t) == TrimRight(TrimLeft(t))

\* readAuthFile(path): [err, text]
ReadAuthFile(f) == [err |-> ~f.exists, text |-> IF f.exists THEN TrimSpace(f.content) ELSE <<>>]

\* GetEnv(key, defaultVal)
GetEnv(val, defaultVal) == IF val # <<>> THEN val ELSE defaultVal

\* nkeys: the user key pairs there are; a seed that does not decode has no
\* public key
PublicOf(seed) == IF seed = "S1" THEN "U1" ELSE IF seed = "S2" THEN "U2" ELSE ""
IsValidPublicUserKey(k) == k \in {"U1", "U2"}
SeedDecodes(seed) == seed \in {"S1", "S2"}

\* SelectMode with NATS_AUTH taken before .auth/mode
SelectModeEnvFirst(w) ==
    LET m == ReadAuthFile(w.modeFile)
    IN  IF w.natsAuth # <<>> THEN w.natsAuth
        ELSE IF ~m.err /\ m.text # <<>> THEN m.text ELSE <<"none">>

\* the first lines of LoadAuthConfig: NATS_AUTH, then .auth/mode over it
SelectMode(w) ==
    LET m == ReadAuthFile(w.modeFile)
    IN  IF ~m.err /\ m.text # <<>> THEN m.text ELSE GetEnv(w.natsAuth, <<"none">>)

AuthConfig(mode, token, nkeyPub, credsDir) ==
    [nil |-> FALSE, mode |-> mode, token |-> token, nkeyPub |-> nkeyPub, credsDir |-> credsDir]

\* LoadAuthConfig with a token mode that has no token handed on as mode none
LoadAuthConfigDowngrades(w) ==
    LET mode == SelectMode(w)
        fail == [err |-> TRUE, cfg |-> NoAuthCfg]
        ok(c) == [err |-> FALSE, cfg |-> c]
    IN  IF mode = <<"none">> THEN ok(AuthConfig(mode, <<>>, "", FALSE))
        ELSE IF mode = <<"token">>
        THEN LET token == IF w.natsToken # <<>> THEN w.natsToken
                          ELSE ReadAuthFile(w.tokenFile).text
             IN  IF token = <<>> THEN ok(AuthConfig(<<"none">>, <<>>, "", FALSE))
                 ELSE ok(AuthConfig(mode, token, "", FALSE))
        ELSE IF mode = <<"nkey">>
        THEN IF w.pubFile = "absent" THEN fail
             ELSE IF ~IsValidPublicUserKey(w.pubFile) THEN fail
             ELSE IF w.seedFile = "absent" THEN fail
             ELSE ok(AuthConfig(mode, <<>>, w.pubFile, FALSE))
        ELSE IF mode = <<"jwt">>
        THEN IF ~w.credsDir THEN fail ELSE ok(AuthConfig(mode, <<>>, "", TRUE))
        ELSE fail

\* LoadAuthConfig(): [err, cfg]
LoadAuthConfig(w) ==
    LET mode == SelectMode(w)
        fail == [err |-> TRUE, cfg |-> NoAuthCfg]
        ok(c) == [err |-> FALSE, cfg |-> c]
    IN  IF mode = <<"none">> THEN ok(AuthConfig(mode, <<>>, "", FALSE))
        ELSE IF mode = <<"token">>
        THEN LET token == IF w.natsToken # <<>> THEN w.natsToken
                          ELSE ReadAuthFile(w.tokenFile).text
             IN  IF token = <<>> THEN fail ELSE ok(AuthConfig(mode, token, "", FALSE))
        ELSE IF mode = <<"nkey">>
        THEN IF w.pubFile = "absent" THEN fail
             ELSE IF ~IsValidPublicUserKey(w.pubFile) THEN fail
             ELSE IF w.seedFile = "absent" THEN fail
             ELSE ok(AuthConfig(mode, <<>>, w.pubFile, FALSE))
        ELSE IF mode = <<"jwt">>
        THEN IF ~w.credsDir THEN fail ELSE ok(AuthConfig(mode, <<>>, "", TRUE))
        ELSE fail

\* configureJWTAuth(opts, cfg): the operator of the NSC store is read
ConfigureJWTAuth(w) ==
    IF w.operator \in {"absent", "nojwt", "bad", "noaccounts"}
    THEN [err |-> TRUE, opts |-> NoSrvOpts]
    ELSE [err |-> FALSE,
          opts |-> [NoSrvOpts EXCEPT !.trusted = TRUE,
                                     !.accounts = IF w.operator = "ok" THEN {"A"} ELSE {}]]

\* ConfigureAuth that leaves the server options alone in mode nkey
ConfigureAuthSkipsNKey(cfg, w) ==
    IF cfg.mode = <<"token">>
    THEN [err |-> FALSE, opts |-> [NoSrvOpts EXCEPT !.authorization = cfg.token]]
    ELSE IF cfg.mode = <<"jwt">> THEN ConfigureJWTAuth(w)
    ELSE [err |-> FALSE, opts |-> NoSrvOpts]

\* ConfigureAuth(opts, cfg): [err, opts]
ConfigureAuth(cfg, w) ==
    IF cfg.mode = <<"none">> THEN [err |-> FALSE, opts |-> NoSrvOpts]
    ELSE IF cfg.mode = <<"token">>
    THEN [err |-> FALSE, opts |-> [NoSrvOpts EXCEPT !.authorization = cfg.token]]
    ELSE IF cfg.mode = <<"nkey">>
    THEN [err |-> FALSE, opts |-> [NoSrvOpts EXCEPT !.nkeys = {cfg.nkeyPub}]]
    ELSE IF cfg.mode = <<"jwt">> THEN ConfigureJWTAuth(w)
    ELSE [err |-> TRUE, opts |-> NoSrvOpts]

\* what a client presents
TokenCreds(t) == [NoCreds EXCEPT !.kind = "token", !.token = t]
NKeyCreds(seed) == [NoCreds EXCEPT !.kind = "nkey", !.pub = PublicOf(seed)]
JWTCreds(account) == [NoCreds EXCEPT !.kind = "jwt", !.account = account]

\* GetClientConnectOptions(cfg): [err, creds]
GetClientConnectOptions(cfg, w) ==
    IF cfg.mode = <<"none">> THEN [err |-> FALSE, creds |-> NoCreds]
    ELSE IF cfg.mode = <<"token">> THEN [err |-> FALSE, creds |-> TokenCreds(cfg.token)]
    ELSE IF cfg.mode = <<"nkey">>
    THEN IF w.seedFile = "absent" \/ ~SeedDecodes(w.seedFile)
         THEN [err |-> TRUE, creds |-> NoCreds]
         ELSE [err |-> FALSE, creds |-> NKeyCreds(w.seedFile)]
    ELSE IF cfg.mode = <<"jwt">>
    THEN IF w.userCreds = "absent"
         THEN [err |-> TRUE, creds |-> NoCreds]
         ELSE [err |-> FALSE, creds |-> JWTCreds(w.userCreds)]
    ELSE [err |-> TRUE, creds |-> NoCreds]

\* the embedded server's decision on a connecting client, by its options
ServerAccepts(o, c) ==
    IF o.trusted THEN c.kind = "jwt" /\ c.account \in o.accounts
    ELSE IF o.nkeys # {} THEN c.kind = "nkey" /\ c.pub \in o.nkeys
    ELSE IF o.authorization # <<>> THEN c.kind = "token" /\ c.token = o.authorization
    ELSE TRUE

\* Manager.New: LoadAuthConfig()
AuthLoad ==
    /\ authPc = "load"
    /\ authMode' = SelectMode(authWorld)
    /\ LET r == LoadAuthConfig(authWorld)
       IN  /\ authCfg' = r.cfg
           /\ IF r.err
              THEN authPc' = "failed" /\ authErr' = "load"
              ELSE authPc' = "configure" /\ UNCHANGED authErr
    /\ UNCHANGED <<authWorld, srvOpts, server, client, confVars, multiVars>>
    /\ UNCHANGED <<mgrVars, regVars, histVars, discVars, kv, toolVars, driftVars, secVars>>

\* StartNATSNode: the server options are built
AuthConfigure ==
    /\ authPc = "configure"
    /\ LET r == ConfigureAuth(authCfg, authWorld)
       IN  IF r.err
           THEN authPc' = "failed" /\ authErr' = "configure" /\ UNCHANGED srvOpts
           ELSE authPc' = "server" /\ srvOpts' = r.opts /\ UNCHANGED authErr
    /\ UNCHANGED <<authWorld, authMode, authCfg, server, client, confVars, multiVars>>
    /\ UNCHANGED <<mgrVars, regVars, histVars, discVars, kv, toolVars, driftVars, secVars>>

\* StartNATSNode: server.NewServer, ns.Start and ns.ReadyForConnections
AuthServerStart ==
    /\ authPc = "server"
    /\ \E ok \in BOOLEAN :
        IF ok
        THEN server' = "up" /\ authPc' = "connect" /\ UNCHANGED authErr
        ELSE authPc' = "failed" /\ authErr' = "server" /\ UNCHANGED server
    /\ UNCHANGED <<authWorld, authMode, authCfg, srvOpts, client, confVars, multiVars>>
    /\ UNCHANGED <<mgrVars, regVars, histVars, discVars, kv, toolVars, driftVars, secVars>>

\* StartNATSNode: the node connects to its own server and opens the bucket;
\* on any error the server is shut down
AuthSelfConnect ==
    /\ authPc = "connect"
    /\ LET r == GetClientConnectOptions(authCfg, authWorld)
       IN  IF r.err
           THEN server' = "down" /\ authPc' = "failed" /\ authErr' = "clientopts"
           ELSE IF ~ServerAccepts(srvOpts, r.creds)
           THEN server' = "down" /\ authPc' = "failed" /\ authErr' = "connect"
           ELSE \E ok \in BOOLEAN :
                  IF ok
                  THEN authPc' = "running" /\ UNCHANGED <<server, authErr>>
                  ELSE server' = "down" /\ authPc' = "failed" /\ authErr' = "jetstream"
    /\ UNCHANGED <<authWorld, authMode, authCfg, srvOpts, client, confVars, multiVars>>
    /\ UNCHANGED <<mgrVars, regVars, histVars, discVars, kv, toolVars, driftVars, secVars>>

\* the credentials other clients may present
ClientCreds ==
    {NoCreds, TokenCreds(<<"s">>), TokenCreds(<<"t">>), NKeyCreds("S1"), NKeyCreds("S2"),
     JWTCreds("A"), JWTCreds("B")}

\* another client's nats.Connect to the server while it is up
AuthClientConnect ==
    /\ server = "up"
    /\ \E c \in ClientCreds :
        client' = [made |-> TRUE, creds |-> c, accepted |-> ServerAccepts(srvOpts, c),
                   running |-> authPc = "running"]
    /\ UNCHANGED <<authWorld, authPc, authMode, authCfg, authErr, srvOpts, server, confVars, multiVars>>
    /\ UNCHANGED <<mgrVars, regVars, histVars, discVars, kv, toolVars, driftVars, secVars>>

\* the environment and the files a node may be started with
AuthWorlds ==
    {w \in [natsAuth  : {<<>>, <<"none">>, <<"token">>, <<"nkey">>, <<"jwt">>, <<"bogus">>},
            modeFile  : {NoSuchFile, File(<<"\n">>), File(<<"token", "\n">>), File(<<"nkey">>),
                         File(<<" ", "jwt">>), File(<<"none">>)},
            natsToken : {<<>>, <<"s">>},
            tokenFile : {NoSuchFile, File(<<" ">>), File(<<"t", "\n">>)},
            pubFile   : {"absent", "U1", "bad"},
            seedFile  : {"absent", "S1", "S2", "bad"},
            credsDir  : BOOLEAN,
            userCreds : {"absent", "bad", "A", "B"},
            operator  : {"absent", "nojwt", "bad", "noaccounts", "empty", "ok"}] :
        ~w.credsDir => w.userCreds = "absent"}

AuthInit ==
    /\ build = [org |-> <<"a">>, repo |-> <<"b">>]
    /\ RegInit
    /\ kv = <<>>
    /\ DiscInit
    /\ ToolIdle
    /\ DriftIdle
    /\ SecIdle
    /\ ConfIdle
    /\ MultiIdle
    /\ authWorld \in AuthWorlds
    /\ authPc = "load"
    /\ authMode = <<>>
    /\ authCfg = NoAuthCfg
    /\ authErr = "none"
    /\ srvOpts = NoSrvOpts
    /\ server = "none"
    /\ client = NoAttempt

AuthNext ==
    \/ AuthLoad
    \/ AuthConfigure
    \/ AuthServerStart
    \/ AuthSelfConnect
    \/ AuthClientConnect

AuthSpec == AuthInit /\ [][AuthNext]_vars


(***************************************************************************)
(* Properties of the node's authentication.                                *)
(***************************************************************************)
AuthModes == {<<"token">>, <<"nkey">>, <<"jwt">>}

\* the credential material of the chosen mode is missing or malformed
MaterialBad ==
    LET w == authWorld
    IN  \/ /\ authMode = <<"token">>
           /\ w.natsToken = <<>>
           /\ ~w.tokenFile.exists \/ \A i \in 1..Len(w.tokenFile.content) :
                                        w.tokenFile.content[i] \in WhiteSpace
        \/ /\ authMode = <<"nkey">>
           /\ w.pubFile \in {"absent", "bad"} \/ w.seedFile \in {"absent", "bad"}
        \/ /\ authMode = <<"jwt">>
           /\ \/ ~w.credsDir
              \/ w.userCreds \in {"absent", "bad"}
              \/ w.operator # "ok"

\* C22: when the chosen mode is token, nkey or jwt and its credential
\* material is missing or malformed, the start of the node ends in an error:
\* the node never runs, its server is never up without authentication, and no
\* client without credentials is ever accepted.
C22_BadMaterialIsFatal ==
    (authPc \notin {"none", "load"} /\ authMode \in AuthModes /\ MaterialBad) =>
        /\ authPc # "running"
        /\ server = "up" => srvOpts # NoSrvOpts
        /\ (client.made /\ client.creds = NoCreds) => ~client.accepted
        /\ authPc = "failed" => authErr # "none"

\* the start has failed in mode nkey on a seed file that does not decode:
\* the server had been up, with the key pair required, and refused a client
C22_Witness ==
    /\ authPc = "failed"
    /\ authErr = "clientopts"
    /\ authMode = <<"nkey">>
    /\ authWorld.seedFile = "bad"
    /\ server = "down"
    /\ client.made /\ client.creds = NoCreds /\ ~client.accepted

\* the mode .auth/mode records: its text without the white space around it
RecordedMode ==
    SelectSeq(authWorld.modeFile.content, LAMBDA x : x \notin WhiteSpace)

\* C23: a mode recorded in .auth/mode is the active one whatever NATS_AUTH
\* says; NATS_AUTH, or none when it is unset, is used only when no mode is
\* recorded.
C23_PersistedModeTakesPrecedence ==
    authPc \notin {"none", "load"} =>
        LET expected == IF authWorld.modeFile.exists /\ RecordedMode # <<>>
                        THEN RecordedMode
                        ELSE IF authWorld.natsAuth # <<>> THEN authWorld.natsAuth
                        ELSE <<"none">>
        IN  /\ authMode = expected
            /\ ~authCfg.nil => authCfg.mode = expected
            /\ authPc = "running" =>
                 /\ expected = <<"token">> <=> srvOpts.authorization # <<>>
                 /\ expected = <<"nkey">> <=> srvOpts.nkeys # {}
                 /\ expected = <<"jwt">> <=> srvOpts.trusted

\* the node runs in the mode of .auth/mode while NATS_AUTH names another
C23_Witness ==
    /\ authPc = "running"
    /\ authWorld.modeFile = File(<<"token", "\n">>)
    /\ authWorld.natsAuth = <<"jwt">>
    /\ authMode = <<"token">>
    /\ srvOpts.authorization # <<>>

\* C24: on a running node in mode token, nkey or jwt a client that presents
\* no credentials is refused and a client that presents the credentials of
\* the active mode is accepted; in mode none a client without credentials is
\* accepted.
C24_CredentialsGateConnections ==
    (client.made /\ client.running) =>
        /\ (authMode \in AuthModes /\ client.creds = NoCreds) => ~client.accepted
        /\ client.creds = GetClientConnectOptions(authCfg, authWorld).creds => client.accepted
        /\ (authMode = <<"none">> /\ client.creds = NoCreds) => client.accepted

\* a running node in mode nkey has refused a client without credentials
C24_Witness ==
    /\ client.made /\ client.running
    /\ authMode = <<"nkey">>
    /\ client.creds = NoCreds
    /\ ~client.accepted


(***************************************************************************)
(* fields.go: ExtractFields over a configuration description.  A           *)
(* description is the sequence of a struct type's fields; a field is       *)
(* [name, anonymous, kind, tag, sub], its tag the parts strings.Split      *)
(* gives, and its name a sequence of characters.                           *)
(***************************************************************************)
MaxConfFields == 2

\* strings.ToUpper, one character
UpperChar(c) ==
    IF c = "a" THEN "A" ELSE IF c = "d" THEN "D" ELSE IF c = "h" THEN "H" ELSE c
\* strings.ToUpper
ToUpper(s) == [i \in 1..Len(s) |-> UpperChar(s[i])]
\* strings.ReplaceAll(path, ".", "_")
ReplaceDots(s) == [i \in 1..Len(s) |-> IF s[i] = "." THEN "_" ELSE s[i]]

\* buildEnvKey with the path's characters kept as they are
BuildEnvKeyVerbatim(prefix, path) ==
    IF prefix # <<>> THEN prefix \o <<"_">> \o path ELSE path

\* buildEnvKey(prefix, path)
BuildEnvKey(prefix, path) ==
    LET k == ToUpper(ReplaceDots(path))
    IN  IF prefix # <<>> THEN ToUpper(prefix) \o <<"_">> \o k ELSE k

\* strings.TrimPrefix(part, p), p being the part's first piece
TrimPrefix(part) == Tail(part)

\* parseConfTag: one part of the tag applied to the descriptor
ApplyTagPart(fi, part) ==
    IF HasPrefix(part, <<"default:">>) THEN [fi EXCEPT !.default = TrimPrefix(part)]
    ELSE IF HasPrefix(part, <<"env:">>) THEN [fi EXCEPT !.envKey = TrimPrefix(part)]
    ELSE IF HasPrefix(part, <<"service:">>) THEN [fi EXCEPT !.dependency = TrimPrefix(part)]
    ELSE IF part = <<"required">> THEN [fi EXCEPT !.required = TRUE]
    ELSE IF part = <<"mask">> THEN [fi EXCEPT !.isSecret = TRUE]
    ELSE IF part = <<"noprint">> THEN [fi EXCEPT !.isSecret = TRUE]
    ELSE fi

RECURSIVE ApplyTag(_, _)
ApplyTag(fi, parts) ==
    IF parts = <<>> THEN fi ELSE ApplyTag(ApplyTagPart(fi, Head(parts)), Tail(parts))

\* parseConfTag(prefix, path, typeName, tag)
ParseConfTag(prefix, path, typeName, tag) ==
    ApplyTag([path |-> path, type |-> typeName, envKey |-> BuildEnvKey(prefix, path),
              default |-> <<>>, required |-> FALSE, isSecret |-> FALSE, dependency |-> <<>>],
             tag)

\* field.IsExported(): the name starts with an upper-case letter
IsExported(name) == name # <<>> /\ Head(name) = UpperChar(Head(name))

\* extractFieldsRecursive(prefix, path, t, fields), t a struct type
RECURSIVE ExtractFieldsRecursive(_, _, _)
ExtractFieldsRecursive(prefix, path, t) ==
    IF t = <<>> THEN <<>>
    ELSE LET field == Head(t)
             fieldPath == IF path # <<>> THEN path \o <<".">> \o field.name ELSE field.name
             here ==
                 IF ~IsExported(field.name) THEN <<>>
                 ELSE IF field.anonymous
                 THEN IF field.kind = "struct"
                      THEN ExtractFieldsRecursive(prefix, path, field.sub)
                      ELSE <<>>
                 ELSE IF field.kind = "struct" /\ field.tag = <<>>
                 THEN ExtractFieldsRecursive(prefix, fieldPath, field.sub)
                 ELSE <<ParseConfTag(prefix, fieldPath, field.kind, field.tag)>>
         IN  here \o ExtractFieldsRecursive(prefix, path, Tail(t))

\* ExtractFields(prefix, cfg)
ExtractFields(prefix, cfg) == ExtractFieldsRecursive(prefix, <<>>, cfg)

\* the configuration descriptions ExtractFields is applied to: structs of up
\* to MaxConfFields fields, a field being a string or a struct of strings;
\* as the compiler demands, no struct has two fields of one name
ConfField(name, anonymous, kind, tag, sub) ==
    [name |-> name, anonymous |-> anonymous, kind |-> kind, tag |-> tag, sub |-> sub]
ConfTags ==
    {<<>>, <<<<"required">>>>, <<<<"default:", "x">>, <<"mask">>>>,
     <<<<"env:", "A", "_", "H">>>>}
DistinctNames(t) == \A i, j \in 1..Len(t) : i # j => t[i].name # t[j].name
InnerFields ==
    {ConfField(n, FALSE, "string", tag, <<>>) :
        n \in {<<"H">>, <<"h">>}, tag \in {<<>>, <<<<"required">>>>}}
InnerStructs ==
    {t \in UNION {[1..n -> InnerFields] : n \in 0..MaxConfFields} : DistinctNames(t)}
OuterFields ==
    {ConfField(n, FALSE, "string", tag, <<>>) :
        n \in {<<"H">>, <<"D", "_", "H">>, <<"h">>, <<"H", "a", "D">>}, tag \in ConfTags}
    \cup {ConfField(<<"D">>, anon, "struct", tag, sub) :
            anon \in BOOLEAN, tag \in {<<>>, <<<<"default:", "x">>>>}, sub \in InnerStructs}
ConfDescriptions ==
    {t \in UNION {[1..n -> OuterFields] : n \in 0..MaxConfFields} : DistinctNames(t)}

\* the prefix ExtractFields is called with
ConfPrefix == <<"a">>

ApplyExtractFields ==
    /\ ~confOut.done
    /\ confOut' = [done |-> TRUE, fields |-> ExtractFields(ConfPrefix, confIn)]
    /\ UNCHANGED <<confIn, authVars, multiVars>>
    /\ UNCHANGED <<mgrVars, regVars, histVars, discVars, kv, toolVars, driftVars, secVars>>

ConfInit ==
    /\ build = [org |-> <<"a">>, repo |-> <<"b">>]
    /\ RegInit
    /\ kv = <<>>
    /\ DiscInit
    /\ ToolIdle
    /\ DriftIdle
    /\ SecIdle
    /\ AuthIdle
    /\ MultiIdle
    /\ confIn \in ConfDescriptions
    /\ confOut = NoConfOut

ConfNext == ApplyExtractFields

ConfSpec == ConfInit /\ [][ConfNext]_vars

(***************************************************************************)
(* Properties of the field extractor.                                      *)
(***************************************************************************)
\* the leaf fields of a struct type, in declaration order, by their paths: an
\* exported field that is not a struct, or a struct that carries a tag, is a
\* leaf; the leaves of an embedded struct keep the path of the struct around
RECURSIVE LeafPaths(_, _)
LeafPaths(path, t) ==
    IF t = <<>> THEN <<>>
    ELSE LET f == Head(t)
             p == IF path = <<>> THEN f.name ELSE path \o <<".">> \o f.name
             own == IF ~IsExported(f.name) THEN <<>>
                    ELSE IF f.kind = "struct" /\ (f.anonymous \/ f.tag = <<>>)
                    THEN LeafPaths(IF f.anonymous THEN path ELSE p, f.sub)
                    ELSE <<p>>
         IN  own \o LeafPaths(path, Tail(t))

\* C25: ExtractFields returns one descriptor per leaf field, in declaration
\* order, fields of nested and embedded structs included, and no two
\* descriptors have the same envKey.
C25_OneDescriptorPerLeafUniqueKeys ==
    confOut.done =>
        /\ [i \in 1..Len(confOut.fields) |-> confOut.fields[i].path] = LeafPaths(<<>>, confIn)
        /\ \A i, j \in 1..Len(confOut.fields) :
              i # j => confOut.fields[i].envKey # confOut.fields[j].envKey


(***************************************************************************)
(* Properties of the Manager's options and of Parse against Close.         *)
(***************************************************************************)
\* C26: a Manager created with WithoutHeartbeat() never runs a heartbeat
\* loop: no heartbeat goroutine is started and no refresh write follows the
\* registration.
C26_WithoutHeartbeatNoRefresh ==
    opts.disableHeartbeat =>
        /\ hbPc = "none"
        /\ \A w \in writes : w.by # "heartbeat"

\* the service is registered: Register has stored the registration and
\* Deregister has not been called
IsRegistered == Registered /\ ~stopped

\* C27: Manager.Registration() returns nil whenever the service is not
\* registered, with registration disabled and also before Parse has
\* registered it, and returns the stored registration once it is registered.
C27_RegistrationNilUnlessRegistered ==
    mgr = "ready" =>
        /\ ~IsRegistered => ManagerRegistration.nil
        /\ IsRegistered =>
             /\ ~ManagerRegistration.nil
             /\ \E w \in writes : w.by = "register" /\ w.reg = ManagerRegistration.reg

\* C28: in every interleaving of Parse with Close, once Close has returned
\* (its delete, if it made one, having succeeded) the registry holds no key
\* written by this Manager.
C28_NoKeyAfterClose ==
    (closed /\ closePc = "idle" /\ closeRes # "none" /\ deregRes # "err") =>
        \A w \in writes : ~Readable(w.key)

\* C29: for every heartbeat interval accepted through HEARTBEAT_INTERVAL or
\* WithHeartbeatInterval, zero and negative values included, registering does
\* not crash the process, and the heartbeat loop ends on Deregister only.
C29_AnyIntervalRuns ==
    Registered =>
        /\ ~crashed
        /\ hbPc # "panic"
        /\ hbPc = "done" => stopped


(***************************************************************************)
(* Termination of the watcher goroutine.  The scheduler runs a goroutine   *)
(* that can take a step, and a select whose stop case is ready again and   *)
(* again takes it in the end, its choice among the ready cases being       *)
(* random.                                                                 *)
(***************************************************************************)
\* NATSNode.Close: the connection is closed under a watcher that was not
\* stopped; its subscription ends, and the client closes Updates()
ConnClosed ==
    /\ wKind # "none"
    /\ subActive
    /\ stopPc = "idle"
    /\ subActive' = FALSE
    /\ UNCHANGED <<updates, updClosed, wStopCh, wPc, wEntry, wName, wKind, stopPc, calls, lateCall, snap, storeOps>>
    /\ UNCHANGED <<restVars, mgrVars, regVars, histVars, kv>>

WatchFairNext ==
    \/ WatchNext
    \/ ConnClosed

WatchFairSpec ==
    /\ DiscSpecInit
    /\ [][WatchFairNext]_vars
    /\ WF_vars(WatcherSelectEntry)
    /\ WF_vars(WatcherSkip)
    /\ WF_vars(WatcherCall)
    /\ WF_vars(WatcherCallReturns)
    /\ SF_vars(WatcherSelectStop)
    /\ WF_vars(StopUnsubscribe)
    /\ WF_vars(UpdatesClosed)

\* C30: a watcher's goroutine ends once Stop() has been called, and also
\* once its update stream has been closed without Stop(); it does not go on
\* looping without an event.  (A run that has used up its MaxCalls callbacks
\* is left out.)
C30_WatcherTerminates ==
    (wKind # "none" /\ (wStopCh = "closed" \/ updClosed))
        ~> (wPc = "done" \/ Len(calls) = MaxCalls)


\* C36: when no value of the environment starts with ref+, ResolveEnvSecrets
\* calls no resolver, changes no variable and returns nil.
C36_NoReferencesNoWork ==
    (secPc # "start" /\ \A n \in DOMAIN envBefore : ~HasPrefix(envBefore[n], RefPrefix)) =>
        /\ evalCalls = 0
        /\ environ = envBefore
        /\ secPc = "done"
        /\ secRes = "nil"

\* the call has returned on an environment without a reference, one of its
\* values holding "="
C36_Witness ==
    /\ secPc = "done"
    /\ secRes = "nil"
    /\ evalCalls = 0
    /\ \A n \in DOMAIN envBefore : ~HasPrefix(envBefore[n], RefPrefix)
    /\ \E n \in DOMAIN envBefore : envBefore[n] = <<"k", "=", "v">>


\* the attributes among default, required and secret in which two descriptors
\* differ
DifferingAttributes(a, b) ==
    {n \in {"default", "required", "isSecret"} : a[n] # b[n]}

\* C34: for a key present in both lists, compareFields gives one "~" entry per
\* attribute among default, required and secret whose value differs, and none
\* when the three are equal.
C34_OneModifiedEntryPerAttribute ==
    driftOut.fn = "compareFields" =>
        \A k \in EnvKeys(driftIn.current) \cap EnvKeys(driftIn.pr) :
            Cardinality({l \in LinesFor(k) : l.kind = "~"})
                = Cardinality(DifferingAttributes(FieldMap(driftIn.current)[k],
                                                  FieldMap(driftIn.pr)[k]))

\* the names of the subjects of the lines of one kind
Subjects(lines, kind) == {l.subject : l \in {x \in lines : x.kind = kind}}

\* C39: the names compareFields(A, B) reports with "+" are exactly the names
\* compareFields(B, A) reports with "-".
C39_AddedIsRemovedOfTheReverse ==
    driftOut.fn = "compareFields" =>
        Subjects(driftOut.lines, "+")
            = Subjects(CompareFields(driftIn.pr, driftIn.current), "-")

\* compareFields has been applied to two lists, each with a key the other
\* lacks
C39_Witness ==
    /\ driftOut.fn = "compareFields"
    /\ Subjects(driftOut.lines, "+") # {}
    /\ Subjects(driftOut.lines, "-") # {}
    /\ Subjects(CompareFields(driftIn.pr, driftIn.current), "-") # {}


(***************************************************************************)
(* Properties of the envKey of a descriptor.                               *)
(***************************************************************************)
\* the tags of the leaf fields of a struct type, in the order of LeafPaths
RECURSIVE LeafTags(_)
LeafTags(t) ==
    IF t = <<>> THEN <<>>
    ELSE LET f == Head(t)
             own == IF ~IsExported(f.name) THEN <<>>
                    ELSE IF f.kind = "struct" /\ (f.anonymous \/ f.tag = <<>>)
                    THEN LeafTags(f.sub)
                    ELSE <<f.tag>>
         IN  own \o LeafTags(Tail(t))

\* the explicit env-name override of a tag: the parts that start with env:
EnvOverrides(tag) == SelectSeq(tag, LAMBDA part : HasPrefix(part, <<"env:">>))

\* upper snake case of a dotted path: the words of the path, a word starting
\* at the path's start, after a dot, after an underscore and at an upper-case
\* letter that follows a lower-case one, in upper case and joined by "_"
IsLowerChar(c) == UpperChar(c) # c
RECURSIVE UpperSnakeFrom(_, _)
UpperSnakeFrom(path, i) ==
    IF i > Len(path) THEN <<>>
    ELSE (IF path[i] = "." THEN <<"_">>
          ELSE IF i > 1 /\ ~IsLowerChar(path[i]) /\ IsLowerChar(path[i - 1])
               THEN <<"_", path[i]>>
          ELSE <<UpperChar(path[i])>>)
         \o UpperSnakeFrom(path, i + 1)
UpperSnakeCase(path) == UpperSnakeFrom(path, 1)

\* C35: the envKey of a descriptor is the prefix, "_" and the upper-snake-case
\* form of the field's dotted path, unless the field's tag carries an env:
\* override, and then it is the override.
C35_EnvKeyIsPrefixedUpperSnakeCase ==
    (confOut.done /\ Len(confOut.fields) = Len(LeafTags(confIn))) =>
        \A i \in 1..Len(confOut.fields) :
            LET f  == confOut.fields[i]
                ov == EnvOverrides(LeafTags(confIn)[i])
            IN  f.envKey = IF ov # <<>> THEN TrimPrefix(ov[Len(ov)])
                           ELSE ToUpper(ConfPrefix) \o <<"_">> \o UpperSnakeCase(f.path)


(***************************************************************************)
(* Properties of the writes of one registration.                           *)
(***************************************************************************)
\* C32: after a successful Register every heartbeat write uses the key of
\* the initial write and carries the same registration (identity, instance
\* and field list), and r.key and r.reg stay what the initial write used.
C32_HeartbeatRepeatsTheInitialWrite ==
    \A w0 \in writes :
        w0.by = "register" =>
            /\ key = w0.key
            /\ reg = w0.reg
            /\ \A w \in writes : w.by = "heartbeat" => (w.key = w0.key /\ w.reg = w0.reg)

\* a heartbeat write has followed the initial write
C32_Witness ==
    /\ \E w \in writes : w.by = "register"
    /\ \E w \in writes : w.by = "heartbeat"
    /\ hbPc = "select"

\* C37: when the initial write of Register fails, Register returns the
\* error, no heartbeat goroutine is started and no write of that registration
\* is ever made.
C37_FailedRegisterLeavesNothing ==
    parseRes = "errRegister" =>
        /\ hbPc = "none"
        /\ \A w \in writes : w.reg # reg

\* Register has built a registration and returned the error of its initial
\* write
C37_Witness ==
    /\ parseRes = "errRegister"
    /\ parsePc = "idle"
    /\ reg.instance.id \in usedIds
    /\ writes = {}
    /\ hbPc = "none"


(***************************************************************************)
(* Properties of the order of the callbacks of one watcher.                *)
(***************************************************************************)
\* C33: the watcher's goroutine takes the entries from the head of
\* Updates(), each once, and calls the callback for the entry it has just
\* taken, while no other call of it is running: the callbacks run one at a
\* time, in the order of delivery, and none for an entry taken before; the
\* store adds what it delivers at the end of Updates().
C33_CallbacksInDeliveryOrder ==
    [][/\ (wPc' = "entry" /\ wPc # "entry") =>
             /\ wPc = "select"
             /\ \/ updates # <<>> /\ wEntry' = Head(updates) /\ updates' = Tail(updates)
                \/ updates = <<>> /\ wEntry' = NilEntry /\ updates' = updates
       /\ calls' # calls =>
             /\ wPc = "entry"
             /\ wPc' = "callback"
             /\ calls' = Append(calls, CallOf(wKind, wEntry))
       /\ wPc = "entry" => (wEntry' = wEntry /\ wPc' \in {"entry", "callback", "select"})
       /\ wPc = "callback" => (calls' = calls /\ wPc' \in {"callback", "select"})
       /\ updates' # updates =>
             \/ updates # <<>> /\ updates' = Tail(updates)
             \/ /\ Len(updates') > Len(updates)
                /\ SubSeq(updates', 1, Len(updates)) = updates
      ]_vars

\* the callback is running for the second of two different entries
C33_Witness ==
    /\ Len(calls) = 2
    /\ calls[1] # calls[2]
    /\ wPc = "callback"
    /\ calls[2] = CallOf(wKind, wEntry)


(***************************************************************************)
(* A Manager that is used again: Parse called after a Parse that           *)
(* registered, and Close called after a Close.  Nothing in Parse, Register  *)
(* or Close refuses the call.  The heartbeat goroutine an earlier Register  *)
(* started keeps running beside the one the next Register starts: it is     *)
(* counted in oldLoops.                                                     *)
(***************************************************************************)
\* calls of Close after the first that are counted
MaxLateCloses == 2

\* Parse called again, the heartbeat goroutine of the earlier Register at
\* its select or ended
ParseAgain ==
    /\ ~crashed
    /\ mgr = "ready"
    /\ parsePc = "idle"
    /\ hbPc \in {"select", "done"}
    /\ mmu = "free"
    /\ IF closed
       THEN /\ parseRes' = "errClosed"
            /\ UNCHANGED <<parsePc, hbPc, oldLoops>>
       ELSE /\ parsePc' = "secrets"
            /\ parseRes' = "none"
            /\ hbPc' = "none"
            /\ oldLoops' = IF hbPc = "select" THEN oldLoops + 1 ELSE oldLoops
    /\ parseFailure' = "none"
    /\ UNCHANGED <<build, mgr, opts, hasRegistrar, closed, mmu, natsDown, closePc, closeRes, deregRes>>
    /\ UNCHANGED <<mu, key, reg, stopped, stopCh, timer, tickPending, hbWait, crashed, usedIds>>
    /\ UNCHANGED <<writes, sinceWrite, hbFails, deregKey, lapsed, lateCloses>>
    /\ UNCHANGED <<discVars, kv, toolVars, driftVars, secVars, authVars, confVars>>

\* heartbeat of an earlier Register, case <-r.stopCh: return
OldLoopStop ==
    /\ ~crashed
    /\ oldLoops > 0
    /\ stopCh = "closed"
    /\ oldLoops' = oldLoops - 1
    /\ UNCHANGED lateCloses
    /\ UNCHANGED <<mgrVars, regVars, histVars, discVars, kv>>
    /\ UNCHANGED <<toolVars, driftVars, secVars, authVars, confVars>>

\* the first call of Close
CloseFirst == ~closed /\ CloseBegin

\* CloseAgain without the test of m.closed: the shutdown is run again
CloseAgainShutsDown ==
    /\ ~crashed
    /\ mgr = "ready"
    /\ closePc = "idle"
    /\ mmu = "free"
    /\ closed
    /\ lateCloses < MaxLateCloses
    /\ mmu' = "close"
    /\ closePc' = IF hasRegistrar THEN "deregister" ELSE "natsClose"
    /\ closeRes' = "none"
    /\ lateCloses' = lateCloses + 1
    /\ UNCHANGED oldLoops
    /\ UNCHANGED <<build, mgr, opts, hasRegistrar, closed, natsDown, parsePc, parseRes, deregRes>>
    /\ UNCHANGED <<regVars, histVars, discVars, kv>>
    /\ UNCHANGED <<toolVars, driftVars, secVars, authVars, confVars>>

\* Close called on a closed Manager: m.mu.Lock(); m.closed is true; return nil
\* (a call made while another is in its shutdown waits for m.mu)
CloseAgain ==
    /\ ~crashed
    /\ mgr = "ready"
    /\ closePc = "idle"
    /\ mmu = "free"
    /\ closed
    /\ lateCloses < MaxLateCloses
    /\ closeRes' = "nil"
    /\ lateCloses' = lateCloses + 1
    /\ UNCHANGED oldLoops
    /\ UNCHANGED <<build, mgr, opts, hasRegistrar, closed, mmu, natsDown, parsePc, parseRes, closePc, deregRes>>
    /\ UNCHANGED <<regVars, histVars, discVars, kv>>
    /\ UNCHANGED <<toolVars, driftVars, secVars, authVars, confVars>>

\* a Manager constructed with its defaults: the node runs, the Registrar
\* exists, the interval is DefaultHeartbeatInterval
MultiInit ==
    /\ build = [org |-> <<"a">>, repo |-> <<"b">>]
    /\ mgr = "ready"
    /\ opts = NoOptions
    /\ hasRegistrar = TRUE
    /\ closed = FALSE
    /\ mmu = "free"
    /\ natsDown = FALSE
    /\ parsePc = "idle"
    /\ parseRes = "none"
    /\ closePc = "idle"
    /\ closeRes = "none"
    /\ deregRes = "none"
    /\ mu = "free"
    /\ key = <<>>
    /\ reg = NoReg
    /\ stopped = FALSE
    /\ stopCh = "open"
    /\ hbPc = "none"
    /\ timer = 0
    /\ tickPending = FALSE
    /\ hbWait = 0
    /\ crashed = FALSE
    /\ usedIds = {}
    /\ writes = {}
    /\ sinceWrite = 0 - 1
    /\ hbFails = 0
    /\ deregKey = <<>>
    /\ lapsed = FALSE
    /\ parseFailure = "none"
    /\ kv = <<>>
    /\ DiscInit
    /\ RestInit

\* Parse, Parse again and Close called one right after the other, well within
\* the first heartbeat interval: no ticker fires and no key expires
MultiNext ==
    \/ ParseBegin
    \/ ParseAgain
    \/ ParseSecrets
    \/ ParseConf
    \/ RegisterBegin
    \/ RegisterStoreOk
    \/ RegisterStoreFail
    \/ HbStart
    \/ HbSelectStop
    \/ OldLoopStop
    \/ CloseBegin
    \/ DeregisterBegin
    \/ DeregisterDeleteOk
    \/ DeregisterDeleteFail
    \/ CloseNats

MultiSpec == MultiInit /\ [][MultiNext]_vars

\* one Parse, and Close called again and again, while time passes
CloseNext ==
    \/ ParseBegin
    \/ ParseSecrets
    \/ ParseConf
    \/ RegisterBegin
    \/ RegisterStoreOk
    \/ RegisterStoreFail
    \/ HbStart
    \/ HbSelectStop
    \/ HbSelectTick
    \/ HbLock
    \/ HbCheck
    \/ HbStoreOk
    \/ HbStoreFail
    \/ CloseFirst
    \/ CloseAgain
    \/ DeregisterBegin
    \/ DeregisterDeleteOk
    \/ DeregisterDeleteFail
    \/ CloseNats
    \/ Tick

CloseSpec == MultiInit /\ [][CloseNext]_vars

(***************************************************************************)
(* Properties of a Manager that is used again.                             *)
(***************************************************************************)
\* C31: once Deregister has returned after a successful delete, and no
\* Register has run since, the registry holds no key this Registrar wrote,
\* and no heartbeat goroutine of it is in a store call, however many
\* Register calls went before.
C31_DeregisterRemovesEveryKey ==
    (deregKey # <<>> /\ key = deregKey /\ parsePc = "idle") =>
        /\ \A w \in writes : ~Readable(w.key)
        /\ hbPc # "store"

\* C38: a call of Close on a closed Manager returns nil and closes no
\* channel, deletes nothing and shuts nothing down; the shutdown is entered
\* once, by the call that sets m.closed, and no call crashes the process on
\* the stop channel.
C38_CloseIsIdempotent ==
    [][/\ lateCloses' # lateCloses =>
             /\ closed
             /\ closeRes' = "nil"
             /\ closePc' = "idle"
             /\ <<stopped, stopCh, kv, natsDown, deregRes, crashed>>'
                   = <<stopped, stopCh, kv, natsDown, deregRes, crashed>>
       /\ (closePc = "idle" /\ closePc' # "idle") => (~closed /\ closed')
       /\ (closed /\ stopCh = "closed") => ~crashed'
      ]_vars

\* Close has returned nil twice more after the Close that deregistered a
\* service and shut the node down
C38_Witness ==
    /\ lateCloses = 2
    /\ closeRes = "nil"
    /\ closePc = "idle"
    /\ deregKey # <<>>
    /\ natsDown
    /\ ~crashed


(***************************************************************************)
(* A watcher whose Stop() is called again.                                 *)
(***************************************************************************)
\* ServiceWatcher.Stop called after a Stop that has returned:
\* close(w.stopCh) on the closed channel panics, and nothing recovers it
StopAgain ==
    /\ ~crashed
    /\ wKind # "none"
    /\ stopPc = "returned"
    /\ wStopCh = "closed"
    /\ crashed' = TRUE
    /\ UNCHANGED <<mu, key, reg, stopped, stopCh, hbPc, timer, tickPending, hbWait, usedIds>>
    /\ UNCHANGED <<mgrVars, histVars, discVars, kv, restVars>>

StopNext ==
    \/ WatchNext
    \/ StopAgain

StopSpec == DiscSpecInit /\ [][StopNext]_vars

\* C40: once Stop() has returned, calling it again completes without
\* crashing the process and leaves the watcher stopped.
C40_SecondStopIsSafe ==
    (wKind # "none" /\ stopPc = "returned") =>
        /\ ~crashed
        /\ wStopCh = "closed"
        /\ ~subActive

====
